---- MODULE Spec2Model ----
(***************************************************************************)
(* A model of the universal compaction picker of terarkdb                  *)
(* (db/compaction_picker_universal.cc).  The picker state machine, and the *)
(* pure functions it is built from, are translated from the source; the    *)
(* helpers of the base CompactionPicker that the file only calls are       *)
(* modelled from the specification and marked so in MODEL_MAP.json.        *)
(***************************************************************************)
EXTENDS Integers, Sequences, FiniteSets, TLC

VARIABLES
  opts,                             \* the column family's options (fixed)
  levels,                           \* VersionStorageInfo: per level, its files
  depend_files,                     \* VersionStorageInfo::depend_files()
  compactions_in_progress_,         \* registered plans
  level0_compactions_in_progress_,  \* registered plans that start at level 0
  returned,                         \* plans handed to the caller, not yet completed
  last,                             \* what the last call did and returned
  ctr,                              \* file-number, plan-id and operation counters
  fx                                \* input and result of a pure function under check

pickerVars == <<opts, levels, depend_files, compactions_in_progress_,
                level0_compactions_in_progress_, returned, last, ctr>>
vars == <<opts, levels, depend_files, compactions_in_progress_,
          level0_compactions_in_progress_, returned, last, ctr, fx>>

(***************************************************************************)
(* Generic helpers                                                         *)
(***************************************************************************)
Range(s) == {s[i] : i \in 1..Len(s)}

Min2(a, b) == IF a < b THEN a ELSE b

Max2(a, b) == IF a > b THEN a ELSE b

RECURSIVE SumSeq(_)
SumSeq(s) == IF s = <<>> THEN 0 ELSE s[1] + SumSeq(Tail(s))

RECURSIVE Flatten(_)
Flatten(ss) == IF ss = <<>> THEN <<>> ELSE ss[1] \o Flatten(Tail(ss))

SelectIdx(s, Test(_)) == {i \in 1..Len(s) : Test(s[i])}

(***************************************************************************)
(* uint64_t arithmetic.  A uint64_t is eight base-256 digits, least        *)
(* significant first, so that file sizes of several gigabytes, path        *)
(* targets and the wrap-around at 2^64 are exact.                          *)
(***************************************************************************)
Digit == 256

NumDigits == 8

U64Zero == [i \in 1..NumDigits |-> 0]

\* the digits of a natural number n < 2^31
RECURSIVE NatDigits(_, _)
NatDigits(n, k) ==
  IF k = 0 THEN <<>> ELSE <<n % Digit>> \o NatDigits(n \div Digit, k - 1)

U64(n) == NatDigits(n, NumDigits)

\* a + b + carry, digit by digit from position i on; the carry out of the
\* top digit is dropped (arithmetic modulo 2^64)
RECURSIVE AddFrom(_, _, _, _)
AddFrom(a, b, i, carry) ==
  IF i > NumDigits THEN <<>>
  ELSE LET s == a[i] + b[i] + carry
       IN  <<s % Digit>> \o AddFrom(a, b, i + 1, s \div Digit)

AddU64(a, b) == AddFrom(a, b, 1, 0)

NotU64(a) == [i \in 1..NumDigits |-> (Digit - 1) - a[i]]

\* a - b modulo 2^64
SubU64(a, b) == AddFrom(a, NotU64(b), 1, 1)

\* a < b, comparing from the most significant digit down
RECURSIVE LtFrom(_, _, _)
LtFrom(a, b, i) ==
  IF i = 0 THEN FALSE
  ELSE IF a[i] # b[i] THEN a[i] < b[i]
  ELSE LtFrom(a, b, i - 1)

LtU64(a, b) == LtFrom(a, b, NumDigits)

GtU64(a, b) == LtU64(b, a)

\* column k of the schoolbook product: sum of a[i] * b[k + 1 - i]
RECURSIVE MulColumn(_, _, _, _)
MulColumn(a, b, k, i) ==
  IF i > k THEN 0 ELSE a[i] * b[k + 1 - i] + MulColumn(a, b, k, i + 1)

RECURSIVE MulFrom(_, _, _, _)
MulFrom(a, b, k, carry) ==
  IF k > NumDigits THEN <<>>
  ELSE LET s == MulColumn(a, b, k, 1) + carry
       IN  <<s % Digit>> \o MulFrom(a, b, k + 1, s \div Digit)

\* a * b modulo 2^64
MulU64(a, b) == MulFrom(a, b, 1, 0)

\* a / d for a small divisor d, long division from the top digit
RECURSIVE DivFrom(_, _, _, _)
DivFrom(a, d, i, rem) ==
  IF i = 0 THEN <<>>
  ELSE LET cur == rem * Digit + a[i]
       IN  DivFrom(a, d, i - 1, cur % d) \o <<cur \div d>>

DivU64(a, d) == DivFrom(a, d, NumDigits, 0)

\* an unsigned int (32 bits) widened to uint64_t: the low four digits
U32OfU64(a) == [i \in 1..NumDigits |-> IF i <= 4 THEN a[i] ELSE 0]

(***************************************************************************)
(* GetPathId                                                               *)
(***************************************************************************)
\* (100 - size_ratio) in unsigned int arithmetic, then widened
HundredMinusRatio(size_ratio) == U32OfU64(SubU64(U64(100), U64(size_ratio)))

FutureSize(file_size, size_ratio) ==
  DivU64(MulU64(file_size, HundredMinusRatio(size_ratio)), 100)

RECURSIVE GetPathIdFrom(_, _, _, _, _)
GetPathIdFrom(cf_paths, file_size, future_size, p, accumulated_size) ==
  IF p >= Len(cf_paths) - 1 THEN p
  ELSE LET target_size == cf_paths[p + 1]
       IN  IF /\ GtU64(target_size, file_size)
              /\ GtU64(AddU64(accumulated_size, SubU64(target_size, file_size)),
                       future_size)
           THEN p
           ELSE GetPathIdFrom(cf_paths, file_size, future_size, p + 1,
                              AddU64(accumulated_size, target_size))

\* cf_paths: the target sizes of the paths (uint64_t), in order
GetPathId(cf_paths, size_ratio, file_size) ==
  GetPathIdFrom(cf_paths, file_size, FutureSize(file_size, size_ratio), 0, U64Zero)

(***************************************************************************)
(* Keys and file metadata                                                  *)
(***************************************************************************)
\* an internal key: a user key and a sequence number
IKey(u, s) == [u |-> u, s |-> s]

\* InternalKeyComparator::Compare: user key ascending, then sequence
\* number descending
IcmpCompare(a, b) ==
  IF a.u < b.u THEN -1
  ELSE IF a.u > b.u THEN 1
  ELSE IF a.s > b.s THEN -1
  ELSE IF a.s < b.s THEN 1
  ELSE 0

kEssenceSst == 0

kMapSst == 1

kLinkSst == 2

\* the value of UINT_MAX, as a uint64_t
UINT_MAX == [i \in 1..NumDigits |-> IF i <= 4 THEN Digit - 1 ELSE 0]

\* FileMetaData of an essence file.  The smallest key of a file carries its
\* largest sequence number and the largest key its smallest one.  A map
\* file has sst_purpose kMapSst, the numbers of the files it refers to in
\* sst_depend, its read amplification (a table property) in read_amp and
\* its map elements in elems.
File(num, lo, hi, sseq, lseq, size, marked) ==
  [num |-> num, path_id |-> 0,
   smallest |-> IKey(lo, lseq), largest |-> IKey(hi, sseq),
   smallest_seqno |-> sseq, largest_seqno |-> lseq,
   file_size |-> size,
   compensated_file_size |-> IF marked THEN 2 * size ELSE size,
   being_compacted |-> FALSE,
   marked_for_compaction |-> marked,
   sst_purpose |-> kEssenceSst,
   sst_depend |-> <<>>,
   read_amp |-> 1,
   elems |-> <<>>]

NumLevels == Len(levels)

\* VersionStorageInfo::LevelFiles; level is 0-based
LevelFiles(level) == levels[level + 1]

NumLevelFiles(level) == Len(LevelFiles(level))

AllFiles == Flatten(levels)

FileNums(files) == {files[i].num : i \in 1..Len(files)}

(***************************************************************************)
(* GenSortedRunGroup.  The doubles of the source are fixed-point numbers   *)
(* here: a value x is the integer x * Scale, rounded towards zero after    *)
(* every multiplication and division.                                      *)
(***************************************************************************)
Scale == 100

FxMul(a, b) == (a * b) \div Scale

\* C++ division truncates towards zero, also for a negative numerator
TruncDiv(a, b) == IF a >= 0 THEN a \div b ELSE -((-a) \div b)

FxDiv(a, b) == TruncDiv(a * Scale, b)

Abs(x) == IF x < 0 THEN -x ELSE x

\* std::pow(q, n) for a natural exponent n
RECURSIVE FxPow(_, _)
FxPow(q, n) == IF n = 0 THEN Scale ELSE FxMul(FxPow(q, n - 1), q)

\* q^n <= S, stopping at the first partial product above S
RECURSIVE PowAtMost(_, _, _, _)
PowAtMost(q, n, S, acc) ==
  IF acc > S THEN FALSE
  ELSE IF n = 0 THEN TRUE
  ELSE PowAtMost(q, n - 1, S, FxMul(acc, q))

\* std::pow(S, 1.0 / g) for S > 1: the largest fixed-point r with
\* r^g <= S, found by bisection between lo (lo^g <= S) and hi (hi^g > S)
RECURSIVE FxRootBetween(_, _, _, _)
FxRootBetween(S, g, lo, hi) ==
  IF hi - lo <= 1 THEN lo
  ELSE LET mid == (lo + hi) \div 2
       IN  IF PowAtMost(mid, g, S, Scale)
           THEN FxRootBetween(S, g, mid, hi)
           ELSE FxRootBetween(S, g, lo, mid)

FxRoot(S, g) == IF g = 1 THEN S ELSE FxRootBetween(S, g, Scale, S + 1)

\* F(q, n) = (q^(n+1) - q) / (q - 1), the sum of q, q^2, ..., q^n; the
\* source divides by q - 1 whatever it is, and a division by zero gives an
\* infinity or a NaN, which the model renders as 0
GroupF(q, n) ==
  IF q = Scale THEN 0 ELSE FxDiv(FxPow(q, n + 1) - q, q - Scale)

\* Fp = q + sum over k = 2..g of k * q^k
RECURSIVE GroupFp(_, _, _)
GroupFp(q, g, k) ==
  IF k > g THEN 0
  ELSE (IF k = 1 THEN q ELSE k * FxPow(q, k)) + GroupFp(q, g, k + 1)

\* one Newton-Raphson step
NewtonStep(q, g, S) ==
  LET Fp == GroupFp(q, g, 1)
  IN  IF Fp = 0 THEN q ELSE q - FxDiv(GroupF(q, g) - S, Fp)

NewtonIterations == 8

RECURSIVE Newton(_, _, _, _)
Newton(q, g, S, c) ==
  IF c = 0 THEN q ELSE Newton(NewtonStep(q, g, S), g, S, c - 1)

\* the lambda Q of GenSortedRunGroup over the first m entries of sr
GroupQ(sr, m, g) ==
  LET S == SumSeq(SubSeq(sr, 1, m))
  IN  IF S <= (g + 1) * Scale THEN Scale
      ELSE Newton(FxRoot(S, g), g, S, NewtonIterations)

\* the refinement loop (lines 736-750): i runs from group - 1 down to 1;
\* st = [sr_size, g, q, o], o the groups set so far (0-based group index
\* j is o[j + 1], start is a 0-based run index)
RECURSIVE GroupRefine(_, _, _)
GroupRefine(sr, i, st) ==
  IF ~(st.q > Scale /\ i > 0) THEN st
  ELSE LET e == st.g - i
           new_q == GroupQ(sr, st.sr_size - e, st.g - e)
       IN  IF new_q < st.q
           THEN GroupRefine(sr, i - 1,
                  [sr_size |-> st.sr_size - e,
                   g |-> st.g - e,
                   q |-> new_q,
                   o |-> [j \in 1..Len(st.o) |->
                            IF j - 1 >= i /\ j - 1 < st.g
                            THEN [start |-> (j - 1) + st.sr_size - st.g,
                                  count |-> 1,
                                  ratio |-> sr[(j - 1) + st.sr_size - st.g + 1]]
                            ELSE st.o[j]]])
           ELSE GroupRefine(sr, i - 1, st)

\* the sweep without the test i < q_i, which is what makes it open a new
\* group whenever as many runs as groups are left
RECURSIVE GroupSweepUnforced(_, _, _, _)
GroupSweepUnforced(sr, q, i, sw) ==
  IF i < 0 THEN sw
  ELSE LET new_acc == sw.sr_acc + sr[i + 1]
           cut == /\ \/ sw.sr_acc > sw.q_acc
                     \/ Abs(new_acc - sw.q_acc) > Abs(sw.sr_acc - sw.q_acc)
                  /\ sw.q_i > 0
           q_i == IF cut THEN sw.q_i - 1 ELSE sw.q_i
           o1 == IF cut
                 THEN [sw.o EXCEPT ![sw.q_i + 1].start = i + 1,
                                   ![sw.q_i].ratio = 0]
                 ELSE sw.o
           o2 == [o1 EXCEPT ![q_i + 1].ratio = @ + sr[i + 1]]
       IN  GroupSweepUnforced(sr, q, i - 1,
             [o |-> o2, q_i |-> q_i, sr_acc |-> new_acc,
              q_acc |-> IF cut THEN sw.q_acc + FxPow(q, sw.q_i) ELSE sw.q_acc])

\* the right-to-left sweep (lines 757-768); sw = [o, q_i, sr_acc, q_acc]
RECURSIVE GroupSweep(_, _, _, _)
GroupSweep(sr, q, i, sw) ==
  IF i < 0 THEN sw
  ELSE LET new_acc == sw.sr_acc + sr[i + 1]
           cut == /\ \/ i < sw.q_i
                     \/ sw.sr_acc > sw.q_acc
                     \/ Abs(new_acc - sw.q_acc) > Abs(sw.sr_acc - sw.q_acc)
                  /\ sw.q_i > 0
           q_i == IF cut THEN sw.q_i - 1 ELSE sw.q_i
           o1 == IF cut
                 THEN [sw.o EXCEPT ![sw.q_i + 1].start = i + 1,
                                   ![sw.q_i].ratio = 0]
                 ELSE sw.o
           o2 == [o1 EXCEPT ![q_i + 1].ratio = @ + sr[i + 1]]
       IN  GroupSweep(sr, q, i - 1,
             [o |-> o2, q_i |-> q_i, sr_acc |-> new_acc,
              q_acc |-> IF cut THEN sw.q_acc + FxPow(q, sw.q_i) ELSE sw.q_acc])

\* an element of the output vector that the function never wrote
UnsetGroup == [start |-> -1, count |-> -1, ratio |-> -1]

\* GenSortedRunGroup(sr, group, &output_group): the groups and the ratio
GenSortedRunGroup(sr, group) ==
  LET ret_q == GroupQ(sr, Len(sr), group)
      st == GroupRefine(sr, group - 1,
              [sr_size |-> Len(sr), g |-> group, q |-> ret_q,
               o |-> [j \in 1..group |-> UnsetGroup]])
      o0 == [st.o EXCEPT ![st.g].ratio = sr[st.sr_size], ![1].start = 0]
      sw == GroupSweep(sr, st.q, st.sr_size - 2,
              [o |-> o0, q_i |-> st.g - 1, sr_acc |-> sr[st.sr_size],
               q_acc |-> FxPow(st.q, st.g)])
      o == [j \in 1..group |->
              IF j < st.g
              THEN [sw.o[j] EXCEPT !.count = sw.o[j + 1].start - sw.o[j].start]
              ELSE IF j = st.g
              THEN [sw.o[j] EXCEPT !.count = st.sr_size - sw.o[j].start]
              ELSE sw.o[j]]
  IN  [groups |-> o, q |-> ret_q]

(***************************************************************************)
(* The version and the helpers of the base CompactionPicker                *)
(***************************************************************************)
\* a null pointer: no file, no plan
nullptr == [null |-> TRUE]

kCompactAllLevels == -1

HasSpaceAmplificationAt(level) ==
  /\ level \in 0..(NumLevels - 1)
  /\ \E i \in 1..NumLevelFiles(level) :
       /\ LevelFiles(level)[i].sst_purpose # kEssenceSst
       /\ LevelFiles(level)[i].read_amp > 1

\* VersionStorageInfo::has_space_amplification()
HasSpaceAmplification ==
  \E level \in 0..(NumLevels - 1) : HasSpaceAmplificationAt(level)

\* VersionStorageInfo::FilesMarkedForCompaction(): (level, file) pairs
FilesMarkedForCompaction ==
  UNION {{<<level, f>> :
            f \in {g \in Range(LevelFiles(level)) :
                     g.marked_for_compaction /\ ~g.being_compacted}} :
         level \in 0..(NumLevels - 1)}

AreFilesInCompaction(files) == \E i \in 1..Len(files) : files[i].being_compacted

\* the files of `files` whose user keys meet [lo, hi], in order
OverlappingFiles(files, lo, hi) ==
  SelectSeq(files, LAMBDA f : f.smallest.u <= hi /\ f.largest.u >= lo)

\* GetRange: the smallest and the largest user key of some files
SmallestUserKey(files) ==
  CHOOSE k \in {files[i].smallest.u : i \in 1..Len(files)} :
    \A i \in 1..Len(files) : k <= files[i].smallest.u

LargestUserKey(files) ==
  CHOOSE k \in {files[i].largest.u : i \in 1..Len(files)} :
    \A i \in 1..Len(files) : k >= files[i].largest.u

\* all the files of a vector of CompactionInputFiles
InputFiles(inputs) == Flatten([i \in 1..Len(inputs) |-> inputs[i].files])

\* the key range of the inputs meets that of a registered plan that writes
\* to `level`
FilesRangeOverlapWithCompaction(inputs, level) ==
  LET files == InputFiles(inputs)
  IN  /\ files # <<>>
      /\ \E c \in compactions_in_progress_ :
           /\ c.output_level = level
           /\ SmallestUserKey(files) <= c.largest_user_key
           /\ LargestUserKey(files) >= c.smallest_user_key

\* CompactionInputFiles
LevelInputs(level, files) == [level |-> level, files |-> files]

(***************************************************************************)
(* Sorted runs                                                             *)
(***************************************************************************)
\* a size that leaves out the files a map or link file depends on
GetFilesSizeOwn(f, file_number) ==
  IF f # nullptr THEN f.file_size
  ELSE IF file_number \in DOMAIN depend_files
  THEN depend_files[file_number].file_size
  ELSE 0

\* with f # nullptr the size of f, otherwise that of the file file_number
\* of depend_files; the files a map or link file depends on are added
RECURSIVE GetFilesSize(_, _)
GetFilesSize(f, file_number) ==
  LET g == IF f # nullptr THEN f
           ELSE IF file_number \in DOMAIN depend_files
           THEN depend_files[file_number]
           ELSE nullptr
  IN  IF g = nullptr THEN 0
      ELSE g.file_size +
           (IF g.sst_purpose # 0
            THEN SumSeq([i \in 1..Len(g.sst_depend) |->
                           GetFilesSize(nullptr, g.sst_depend[i])])
            ELSE 0)

SortedRun(level, file, size, compensated_file_size, being_compacted) ==
  [level |-> level, file |-> file, size |-> size,
   compensated_file_size |-> compensated_file_size,
   being_compacted |-> being_compacted, wait_reduce |-> FALSE]

\* a run whose flag is that of the first file whatever the options are
LevelRunFirstFlag(level) ==
  LET files == LevelFiles(level)
  IN  [level |-> level, file |-> nullptr,
       size |-> SumSeq([i \in 1..Len(files) |-> GetFilesSize(files[i], -1)]),
       compensated_file_size |->
         SumSeq([i \in 1..Len(files) |-> files[i].compensated_file_size]),
       being_compacted |-> files # <<>> /\ files[1].being_compacted,
       wait_reduce |-> FALSE]

\* the run of a level >= 1; the assertion of line 270 is compiled out, so
\* without allow_trivial_move the flag is that of the first file
LevelRun(level) ==
  LET files == LevelFiles(level)
  IN  SortedRun(level, nullptr,
        SumSeq([i \in 1..Len(files) |-> GetFilesSize(files[i], -1)]),
        SumSeq([i \in 1..Len(files) |-> files[i].compensated_file_size]),
        IF opts.allow_trivial_move
        THEN AreFilesInCompaction(files)
        ELSE files # <<>> /\ files[1].being_compacted)

CalculateSortedRuns ==
  [i \in 1..NumLevelFiles(0) |->
     LET f == LevelFiles(0)[i]
     IN  SortedRun(0, f, GetFilesSize(f, -1), f.compensated_file_size,
                   f.being_compacted)] \o
  SelectSeq([level \in 1..(NumLevels - 1) |-> LevelRun(level)],
            LAMBDA sr : sr.compensated_file_size > 0)

(***************************************************************************)
(* Compaction plans                                                        *)
(***************************************************************************)
\* CompactionParams as its constructor leaves it
CompactionParams ==
  [inputs |-> <<>>, output_level |-> 0, output_path_id |-> 0,
   max_subcompactions |-> 0, manual_compaction |-> FALSE,
   partial_compaction |-> FALSE, compaction_purpose |-> kEssenceSst,
   input_range |-> <<>>, compaction_reason |-> "kUnknown"]

\* new Compaction(params): the plan, with the files as they were when it
\* was built
Compaction(params, id) ==
  [id |-> id,
   inputs |-> params.inputs,
   output_level |-> params.output_level,
   output_path_id |-> params.output_path_id,
   max_subcompactions |-> params.max_subcompactions,
   manual_compaction |-> params.manual_compaction,
   partial_compaction |-> params.partial_compaction,
   compaction_purpose |-> params.compaction_purpose,
   input_range |-> params.input_range,
   compaction_reason |-> params.compaction_reason,
   is_trivial_move |-> FALSE,
   smallest_user_key |-> SmallestUserKey(InputFiles(params.inputs)),
   largest_user_key |-> LargestUserKey(InputFiles(params.inputs))]

\* Compaction::start_level()
StartLevel(c) == c.inputs[1].level


\* VersionStorageInfo::CompactionScore(level) as ComputeCompactionScore
\* leaves it for universal compaction, in units of 1 / Scale: the level-0
\* files and the levels below that are not being compacted, over the
\* trigger; a level other than 0 has no score
CompactionScore(level) ==
  LET num_sorted_runs ==
        Cardinality({i \in 1..NumLevelFiles(0) :
                       ~LevelFiles(0)[i].being_compacted}) +
        Cardinality({l \in 1..(NumLevels - 1) :
                       /\ NumLevelFiles(l) > 0
                       /\ ~LevelFiles(l)[1].being_compacted})
  IN  IF level = 0
      THEN (num_sorted_runs * Scale) \div
             opts.level0_file_num_compaction_trigger
      ELSE 0

\* a gate that looks at the score only
NeedsCompactionByScore == CompactionScore(0) >= Scale

\* NeedsCompaction (lines 167-180)
NeedsCompaction ==
  IF CompactionScore(0) >= 1 * Scale THEN TRUE
  ELSE IF FilesMarkedForCompaction # {} THEN TRUE
  ELSE IF HasSpaceAmplification THEN TRUE
  ELSE FALSE

kCompactionStopStyleSimilarSize == "kCompactionStopStyleSimilarSize"

kCompactionStopStyleTotalSize == "kCompactionStopStyleTotalSize"

\* the options of a column family; the seeds change some of them
Options ==
  [num_levels |-> 3, level0_file_num_compaction_trigger |-> 2,
   enable_lazy_compaction |-> FALSE, table_cache |-> FALSE,
   allow_trivial_move |-> FALSE, allow_ingest_behind |-> FALSE,
   size_ratio |-> 1, min_merge_width |-> 2, max_merge_width |-> UINT_MAX,
   max_size_amplification_percent |-> 200,
   stop_style |-> kCompactionStopStyleTotalSize,
   cf_paths |-> <<U64(100), U64(1000)>>, max_subcompactions |-> 1,
   write_buffer_size |-> 1, max_compaction_bytes |-> 100,
   target_file_size_base |-> 8]

\* GetPathId for the paths and the size ratio of Options, worked out once
\* for the sizes that plans come to
PathIds ==
  [size \in 0..128 |->
     GetPathId(Options.cf_paths, Options.size_ratio, U64(size))]

\* and for the 1ULL << 20 of line 1770
PathIdMiB == GetPathId(Options.cf_paths, Options.size_ratio, U64(1048576))

\* the path for an estimated size that fits 31 bits
PathIdFor(estimated_total_size) ==
  LET known == /\ opts.cf_paths = Options.cf_paths
               /\ opts.size_ratio = Options.size_ratio
  IN  IF known /\ estimated_total_size \in DOMAIN PathIds
      THEN PathIds[estimated_total_size]
      ELSE IF known /\ estimated_total_size = 1048576 THEN PathIdMiB
      ELSE GetPathId(opts.cf_paths, opts.size_ratio,
                     U64(estimated_total_size))

\* the inputs vector that the size-amp and the ratio strategies fill: slot
\* k holds level start_level + k; an L0 run adds its file to slot 0, the
\* run of a level puts the files of that level in slot level - start_level.
\* The picked runs are sorted_runs[start_index .. end_index - 1] (0-based).
RunInputs(sorted_runs, start_index, end_index, slots) ==
  LET picked == SubSeq(sorted_runs, start_index + 1, end_index)
      start_level == picked[1].level
      l0 == SelectSeq(picked, LAMBDA sr : sr.level = 0)
  IN  [k \in 1..slots |->
         LET level == start_level + (k - 1)
         IN  LevelInputs(level,
               IF level = 0 THEN [i \in 1..Len(l0) |-> l0[i].file]
               ELSE IF \E i \in 1..Len(picked) : picked[i].level = level
               THEN LevelFiles(level)
               ELSE <<>>)]

\* the output level of a window of runs that ends before run end_index
RunOutputLevel(sorted_runs, end_index) ==
  LET output_level ==
        IF end_index = Len(sorted_runs) THEN NumLevels - 1
        ELSE IF sorted_runs[end_index + 1].level = 0 THEN 0
        ELSE sorted_runs[end_index + 1].level - 1
  IN  IF opts.allow_ingest_behind /\ output_level = NumLevels - 1
      THEN output_level - 1
      ELSE output_level

(***************************************************************************)
(* PickCompactionToReduceSizeAmp                                           *)
(***************************************************************************)
\* a SizeAmp that leaves the bottommost run out of its plan
PickCompactionToReduceSizeAmpUpper(sorted_runs) ==
  LET n == Len(sorted_runs)
      ratio == opts.max_size_amplification_percent
      free == {loop \in 0..(n - 2) : ~sorted_runs[loop + 1].being_compacted}
  IN  IF sorted_runs[n].being_compacted \/ free = {} THEN nullptr
      ELSE
        LET start_index == CHOOSE loop \in free : \A o \in free : loop <= o
            candidates == start_index..(n - 2)
            candidate_size ==
              SumSeq([i \in 1..(n - 1 - start_index) |->
                        sorted_runs[start_index + i].compensated_file_size])
            earliest_file_size == sorted_runs[n].size
            estimated_total_size ==
              SumSeq([i \in 1..(n - start_index) |->
                        sorted_runs[start_index + i].size])
        IN  IF \E loop \in candidates : sorted_runs[loop + 1].being_compacted
            THEN nullptr
            ELSE IF LtU64(MulU64(U64(candidate_size), U64(100)),
                          MulU64(U64(ratio), U64(earliest_file_size)))
            THEN nullptr
            ELSE [CompactionParams EXCEPT
                    !.inputs = RunInputs(sorted_runs, start_index, n - 1,
                                         NumLevels),
                    !.output_level = IF opts.allow_ingest_behind
                                     THEN NumLevels - 2 ELSE NumLevels - 1,
                    !.output_path_id = PathIdFor(estimated_total_size),
                    !.compaction_reason = "kUniversalSizeAmplification"]

\* a SizeAmp that adds up the runs being compacted ahead of the first
\* candidate as well
PickCompactionToReduceSizeAmpAllRuns(sorted_runs) ==
  LET n == Len(sorted_runs)
      ratio == opts.max_size_amplification_percent
      free == {loop \in 0..(n - 2) : ~sorted_runs[loop + 1].being_compacted}
  IN  IF sorted_runs[n].being_compacted \/ free = {} THEN nullptr
      ELSE
        LET start_index == CHOOSE loop \in free : \A o \in free : loop <= o
            candidates == start_index..(n - 2)
            candidate_size ==
              SumSeq([i \in 1..(n - 1) |->
                        sorted_runs[i].compensated_file_size])
            earliest_file_size == sorted_runs[n].size
            estimated_total_size ==
              SumSeq([i \in 1..(n - start_index) |->
                        sorted_runs[start_index + i].size])
        IN  IF \E loop \in candidates : sorted_runs[loop + 1].being_compacted
            THEN nullptr
            ELSE IF LtU64(MulU64(U64(candidate_size), U64(100)),
                          MulU64(U64(ratio), U64(earliest_file_size)))
            THEN nullptr
            ELSE [CompactionParams EXCEPT
                    !.inputs = RunInputs(sorted_runs, start_index, n, NumLevels),
                    !.output_level = IF opts.allow_ingest_behind
                                     THEN NumLevels - 2 ELSE NumLevels - 1,
                    !.output_path_id = PathIdFor(estimated_total_size),
                    !.compaction_reason = "kUniversalSizeAmplification"]

PickCompactionToReduceSizeAmp(sorted_runs) ==
  LET n == Len(sorted_runs)
      ratio == opts.max_size_amplification_percent
      free == {loop \in 0..(n - 2) : ~sorted_runs[loop + 1].being_compacted}
  IN  IF sorted_runs[n].being_compacted \/ free = {} THEN nullptr
      ELSE
        LET start_index == CHOOSE loop \in free : \A o \in free : loop <= o
            candidates == start_index..(n - 2)
            candidate_size ==
              SumSeq([i \in 1..(n - 1 - start_index) |->
                        sorted_runs[start_index + i].compensated_file_size])
            earliest_file_size == sorted_runs[n].size
            estimated_total_size ==
              SumSeq([i \in 1..(n - start_index) |->
                        sorted_runs[start_index + i].size])
        IN  IF \E loop \in candidates : sorted_runs[loop + 1].being_compacted
            THEN nullptr
            ELSE IF LtU64(MulU64(U64(candidate_size), U64(100)),
                          MulU64(U64(ratio), U64(earliest_file_size)))
            THEN nullptr
            ELSE [CompactionParams EXCEPT
                    !.inputs = RunInputs(sorted_runs, start_index, n, NumLevels),
                    !.output_level = IF opts.allow_ingest_behind
                                     THEN NumLevels - 2 ELSE NumLevels - 1,
                    !.output_path_id = PathIdFor(estimated_total_size),
                    !.compaction_reason = "kUniversalSizeAmplification"]

(***************************************************************************)
(* PickCompactionToReduceSortedRunsOld                                     *)
(***************************************************************************)
\* a comparison that leaves the ratio out: candidate_size < size
RatioBelowExact(candidate_size, ratio, size) ==
  LtU64(U64(candidate_size), U64(size))

\* candidate_size * (100.0 + ratio) / 100.0 < size, ratio an unsigned int
RatioBelow(candidate_size, ratio, size) ==
  LtU64(MulU64(U64(candidate_size), AddU64(U64(100), ratio)),
        MulU64(U64(size), U64(100)))

\* the loop of lines 840-874 from run i on: the candidate count and size
RECURSIVE ExtendWindow(_, _, _, _, _, _)
ExtendWindow(sorted_runs, ratio, max_files_to_compact, i, candidate_count, candidate_size) ==
  IF ~(LtU64(U64(candidate_count), max_files_to_compact) /\ i < Len(sorted_runs))
  THEN candidate_count
  ELSE LET succeeding_sr == sorted_runs[i + 1]
       IN  IF succeeding_sr.being_compacted THEN candidate_count
           ELSE IF RatioBelow(candidate_size, ratio, succeeding_sr.size)
           THEN candidate_count
           ELSE IF opts.stop_style = kCompactionStopStyleSimilarSize
           THEN IF RatioBelow(succeeding_sr.size, ratio, candidate_size)
                THEN candidate_count
                ELSE ExtendWindow(sorted_runs, ratio, max_files_to_compact,
                       i + 1, candidate_count + 1,
                       succeeding_sr.compensated_file_size)
           ELSE ExtendWindow(sorted_runs, ratio, max_files_to_compact,
                  i + 1, candidate_count + 1,
                  candidate_size + succeeding_sr.compensated_file_size)

\* an outer loop that gives up after the first window
FindWindowOnce(sorted_runs, ratio, max_files_to_compact, min_merge_width, loop) ==
  LET n == Len(sorted_runs)
      free == {l \in loop..(n - 1) : ~sorted_runs[l + 1].being_compacted}
  IN  IF loop >= n \/ free = {}
      THEN [done |-> FALSE, start_index |-> 0, candidate_count |-> 0]
      ELSE LET first == CHOOSE l \in free : \A o \in free : l <= o
               candidate_count ==
                 ExtendWindow(sorted_runs, ratio, max_files_to_compact,
                              first + 1, 1,
                              sorted_runs[first + 1].compensated_file_size)
           IN  [done |-> candidate_count >= min_merge_width,
                start_index |-> first, candidate_count |-> candidate_count]

\* the outer loop of lines 808-891 from run `loop` on
RECURSIVE FindWindow(_, _, _, _, _)
FindWindow(sorted_runs, ratio, max_files_to_compact, min_merge_width, loop) ==
  LET n == Len(sorted_runs)
      free == {l \in loop..(n - 1) : ~sorted_runs[l + 1].being_compacted}
  IN  IF loop >= n \/ free = {}
      THEN [done |-> FALSE, start_index |-> 0, candidate_count |-> 0]
      ELSE LET first == CHOOSE l \in free : \A o \in free : l <= o
               candidate_count ==
                 ExtendWindow(sorted_runs, ratio, max_files_to_compact,
                              first + 1, 1,
                              sorted_runs[first + 1].compensated_file_size)
           IN  IF candidate_count >= min_merge_width
               THEN [done |-> TRUE, start_index |-> first,
                     candidate_count |-> candidate_count]
               ELSE FindWindow(sorted_runs, ratio, max_files_to_compact,
                               min_merge_width, first + 1)

PickCompactionToReduceSortedRunsOld(ratio, max_number_of_files_to_compact, sorted_runs) ==
  LET max_files_to_compact ==
        IF LtU64(opts.max_merge_width, max_number_of_files_to_compact)
        THEN opts.max_merge_width ELSE max_number_of_files_to_compact
      min_merge_width == Max2(opts.min_merge_width, 2)
      w == FindWindow(sorted_runs, ratio, max_files_to_compact,
                      min_merge_width, 0)
      first_index_after == w.start_index + w.candidate_count
      estimated_total_size ==
        SumSeq([i \in 1..first_index_after |-> sorted_runs[i].size])
  IN  IF ~w.done \/ w.candidate_count <= 1 THEN nullptr
      ELSE [CompactionParams EXCEPT
              !.inputs = RunInputs(sorted_runs, w.start_index,
                                   first_index_after, NumLevels),
              !.output_level = RunOutputLevel(sorted_runs, first_index_after),
              !.output_path_id = PathIdFor(estimated_total_size),
              !.compaction_reason =
                 IF max_number_of_files_to_compact = UINT_MAX
                 THEN "kUniversalSizeRatio" ELSE "kUniversalSortedRunNum"]

(***************************************************************************)
(* PickDeleteTriggeredCompaction                                           *)
(***************************************************************************)
\* what PickFilesMarkedForCompaction may leave in start_level and
\* start_level_inputs: one of the marked files that are not being
\* compacted, none of level 0 while a level-0 compaction is registered;
\* nullptr stands for empty start_level_inputs
MarkedFileChoices ==
  LET eligible == {lf \in FilesMarkedForCompaction :
                     lf[1] # 0 \/ level0_compactions_in_progress_ = {}}
  IN  IF eligible = {} THEN {nullptr} ELSE eligible

\* level-0 files reached from the range [lo, hi] through overlaps
RECURSIVE OverlappingL0(_, _)
OverlappingL0(lo, hi) ==
  LET files == OverlappingFiles(LevelFiles(0), lo, hi)
      lo2 == Min2(lo, SmallestUserKey(files))
      hi2 == Max2(hi, LargestUserKey(files))
  IN  IF files = <<>> \/ (lo2 = lo /\ hi2 = hi) THEN files
      ELSE OverlappingL0(lo2, hi2)

\* GetOverlappingL0Files: the inputs grown to every overlapping level-0
\* file, or nullptr when one of them, or a file of the output level in
\* their range, is being compacted
GetOverlappingL0Files(start_level_inputs, output_level) ==
  LET files == OverlappingL0(SmallestUserKey(start_level_inputs.files),
                             LargestUserKey(start_level_inputs.files))
  IN  IF \/ AreFilesInCompaction(files)
         \/ AreFilesInCompaction(
              OverlappingFiles(LevelFiles(output_level),
                               SmallestUserKey(files), LargestUserKey(files)))
      THEN nullptr
      ELSE LevelInputs(0, files)

\* a SetupOtherInputs that takes no file of the output level
SetupOtherInputsNone(start_level_inputs, output_level) ==
  LevelInputs(output_level, <<>>)

\* SetupOtherInputs: the files of the output level in the range of the
\* start-level inputs, or nullptr when one of them is being compacted
SetupOtherInputs(start_level_inputs, output_level) ==
  LET files == OverlappingFiles(LevelFiles(output_level),
                                SmallestUserKey(start_level_inputs.files),
                                LargestUserKey(start_level_inputs.files))
  IN  IF AreFilesInCompaction(files) THEN nullptr
      ELSE LevelInputs(output_level, files)

\* the plan for the inputs that lines 1140-1228 have put together
DeleteTriggeredParams(inputs, output_level) ==
  LET out == LevelFiles(output_level)
      estimated_total_size ==
        SumSeq([i \in 1..Len(out) |-> out[i].file_size])
      lazy == opts.enable_lazy_compaction /\ output_level # 0
  IN  [CompactionParams EXCEPT
         !.inputs = inputs,
         !.output_level = output_level,
         !.output_path_id = PathIdFor(estimated_total_size),
         !.max_subcompactions = IF lazy THEN 1 ELSE 0,
         !.manual_compaction = TRUE,
         !.compaction_purpose = IF lazy THEN kMapSst ELSE kEssenceSst,
         !.compaction_reason = "kFilesMarkedForCompaction"]

\* DeleteTriggered with the single-level plan made of the files up to the
\* first marked file
PickDeleteTriggeredNewer(marked) ==
  LET files == LevelFiles(0)
      from == {i \in 1..Len(files) : files[i].marked_for_compaction}
      first == CHOOSE i \in from : \A o \in from : i <= o
  IN  IF from = {} \/ first <= 1 THEN nullptr
      ELSE DeleteTriggeredParams(<<LevelInputs(0, SubSeq(files, 1, first))>>, 0)

\* marked: what PickFilesMarkedForCompaction chose, <<level, file>> or
\* nullptr
PickDeleteTriggeredCompaction(marked) ==
  IF NumLevels = 1
  THEN LET files == LevelFiles(0)
           from == {i \in 1..Len(files) : files[i].marked_for_compaction}
           first == CHOOSE i \in from : \A o \in from : i <= o
       IN  IF from = {} \/ Len(files) - first + 1 <= 1 THEN nullptr
           ELSE DeleteTriggeredParams(
                  <<LevelInputs(0, SubSeq(files, first, Len(files)))>>, 0)
  ELSE IF marked = nullptr THEN nullptr
  ELSE
    LET start_level == marked[1]
        picked == LevelInputs(start_level, <<marked[2]>>)
        below == {l \in (start_level + 1)..(NumLevels - 1) :
                    NumLevelFiles(l) # 0}
        first_below == IF below = {} THEN NumLevels
                       ELSE CHOOSE l \in below : \A o \in below : l <= o
        bottom == IF first_below = NumLevels THEN NumLevels - 1
                  ELSE first_below
        output_level == IF opts.allow_ingest_behind /\ bottom = NumLevels - 1
                        THEN bottom - 1 ELSE bottom
        start_level_inputs ==
          IF output_level # 0 /\ start_level = 0
          THEN GetOverlappingL0Files(picked, output_level)
          ELSE picked
        output_level_inputs ==
          IF start_level_inputs = nullptr THEN nullptr
          ELSE SetupOtherInputs(start_level_inputs, output_level)
        inputs == <<start_level_inputs>> \o
                  (IF output_level_inputs.files # <<>>
                   THEN <<output_level_inputs>> ELSE <<>>)
    IN  IF first_below = NumLevels /\ start_level # 0 THEN nullptr
        ELSE IF output_level = 0
        THEN DeleteTriggeredParams(<<picked>>, output_level)
        ELSE IF start_level_inputs = nullptr \/ output_level_inputs = nullptr
        THEN nullptr
        ELSE IF FilesRangeOverlapWithCompaction(inputs, output_level)
        THEN nullptr
        ELSE DeleteTriggeredParams(inputs, output_level)

(***************************************************************************)
(* PickTrivialMoveCompaction                                               *)
(***************************************************************************)
\* the lambda is_compaction_output_level
IsCompactionOutputLevel(l) ==
  \E c \in compactions_in_progress_ : c.output_level = l

\* a search that stops at the lowest level, empty or not
TrivialMoveLevelsBottom(from) ==
  [start_level |-> 0, output_level |-> from]

\* the while loop of lines 1283-1314, entered with output_level = from:
\* the levels to move from and to, or nullptr
RECURSIVE TrivialMoveLevels(_)
TrivialMoveLevels(from) ==
  LET empty == {l \in 1..from :
                  LevelFiles(l) = <<>> /\ ~IsCompactionOutputLevel(l)}
  IN  IF empty = {} THEN nullptr
      ELSE
        LET output_level == CHOOSE l \in empty : \A o \in empty : l >= o
            stops == {l \in 1..(output_level - 1) :
                        IsCompactionOutputLevel(l) \/ LevelFiles(l) # <<>>}
            start_level == IF stops = {} THEN 0
                           ELSE CHOOSE l \in stops : \A o \in stops : l >= o
            found_start_level ==
              start_level > 0 /\ ~IsCompactionOutputLevel(start_level)
        IN  IF start_level = 0
            THEN [start_level |-> 0, output_level |-> output_level]
            ELSE IF /\ found_start_level
                    /\ ~AreFilesInCompaction(LevelFiles(start_level))
            THEN [start_level |-> start_level, output_level |-> output_level]
            ELSE TrivialMoveLevels(start_level - 1)

PickTrivialMoveCompaction ==
  LET lv == TrivialMoveLevels(IF opts.allow_ingest_behind
                              THEN NumLevels - 2 ELSE NumLevels - 1)
      level0_files == LevelFiles(0)
      files == IF lv.start_level = 0
               THEN <<level0_files[Len(level0_files)]>>
               ELSE LevelFiles(lv.start_level)
  IN  IF ~opts.allow_trivial_move \/ lv = nullptr THEN nullptr
      ELSE IF /\ lv.start_level = 0
              /\ \/ level0_files = <<>>
                 \/ level0_files[Len(level0_files)].being_compacted
      THEN nullptr
      ELSE [CompactionParams EXCEPT
              !.inputs = <<LevelInputs(lv.start_level, files)>>,
              !.output_level = lv.output_level,
              !.output_path_id = files[1].path_id,
              !.compaction_reason = "kTrivialMoveLevel"]

(***************************************************************************)
(* PickCompactionToReduceSortedRuns                                        *)
(***************************************************************************)
\* a group loop that leaves wait_reduce alone
RECURSIVE PickGroupUntagged(_, _, _)
PickGroupUntagged(group, group_i, st) ==
  IF group_i > Len(group) THEN st
  ELSE
    LET g == group[group_i]
        members == (g.start + 1)..(g.start + g.count)
        being_compacted ==
          g.count > 1 /\ \E i \in members : st.sorted_runs[i].being_compacted
    IN  PickGroupUntagged(group, group_i + 1,
          IF st.end_index # 0 \/ g.count = 1 \/ being_compacted
          THEN st
          ELSE [st EXCEPT !.start_index = g.start,
                          !.end_index = g.start + g.count])

\* the group loop of lines 1946-1977 from group group_i on; st holds the
\* runs (for wait_reduce), start_index and end_index
RECURSIVE PickGroup(_, _, _)
PickGroup(group, group_i, st) ==
  IF group_i > Len(group) THEN st
  ELSE
    LET g == group[group_i]
        members == (g.start + 1)..(g.start + g.count)
        being_compacted ==
          g.count > 1 /\ \E i \in members : st.sorted_runs[i].being_compacted
        tagged == IF g.count > 1
                  THEN [i \in 1..Len(st.sorted_runs) |->
                          IF i \in members
                          THEN [st.sorted_runs[i] EXCEPT !.wait_reduce = TRUE]
                          ELSE st.sorted_runs[i]]
                  ELSE st.sorted_runs
    IN  PickGroup(group, group_i + 1,
          IF st.end_index # 0 \/ g.count = 1 \/ being_compacted
          THEN [st EXCEPT !.sorted_runs = tagged]
          ELSE [sorted_runs |-> tagged, start_index |-> g.start,
                end_index |-> g.start + g.count])

\* lines 1981-2061: the plan for the group that the loop settled on (st),
\* the runs with their wait_reduce tags, and whether a level was written
\* past the end of the inputs vector, which has one slot per picked run
\* (lines 2025-2038); RunInputs leaves such a level out
ReduceSortedRunsPlan(sorted_runs, st) ==
  LET start_level == sorted_runs[st.start_index + 1].level
      slots == st.end_index - st.start_index
      estimated_total_size ==
        SumSeq([i \in 1..slots |-> sorted_runs[st.start_index + i].size])
  IN  IF st.end_index = 0
      THEN [c |-> nullptr, sorted_runs |-> st.sorted_runs,
            out_of_bounds |-> FALSE]
      ELSE [c |-> [CompactionParams EXCEPT
                     !.inputs = RunInputs(sorted_runs, st.start_index,
                                          st.end_index, slots),
                     !.output_level = RunOutputLevel(sorted_runs, st.end_index),
                     !.output_path_id = PathIdFor(estimated_total_size),
                     !.max_subcompactions = 1,
                     !.compaction_purpose = kMapSst,
                     !.compaction_reason = "kUniversalSortedRunNum"],
            sorted_runs |-> st.sorted_runs,
            out_of_bounds |->
              \E i \in (st.start_index + 1)..st.end_index :
                sorted_runs[i].level - start_level >= slots]

PickCompactionToReduceSortedRuns(sorted_runs, reduce_sorted_run_target) ==
  LET target == IF reduce_sorted_run_target = 0 THEN Len(sorted_runs)
                ELSE reduce_sorted_run_target
      sorted_run_ratio ==
        [i \in 1..Len(sorted_runs) |->
           (sorted_runs[i].size * Scale) \div opts.write_buffer_size]
  IN  ReduceSortedRunsPlan(sorted_runs,
        PickGroup(GenSortedRunGroup(sorted_run_ratio, target).groups, 1,
                  [sorted_runs |-> sorted_runs,
                   start_index |-> 0, end_index |-> 0]))

(***************************************************************************)
(* PickCompositeCompaction                                                 *)
(***************************************************************************)
\* a loop that settles on no run
CompositeTargetNone(sorted_runs, i, props_ok, acc) == acc

\* the loop of lines 1351-1390 from run i down to the first; props_ok is
\* whether GetTableProperties succeeds; acc holds inputs.level,
\* inputs.files and max_read_amp
RECURSIVE CompositeTarget(_, _, _, _)
CompositeTarget(sorted_runs, i, props_ok, acc) ==
  IF i = 0 THEN acc
  ELSE
    LET sr == sorted_runs[i]
        level_files == LevelFiles(sr.level)
        skip == \/ sr.wait_reduce
                \/ /\ sr.level > 0
                   /\ \/ ~HasSpaceAmplificationAt(sr.level)
                      \/ AreFilesInCompaction(level_files)
                \/ /\ sr.level = 0
                   /\ \/ sr.file.being_compacted
                      \/ sr.file.sst_purpose # kMapSst
        f == IF sr.level > 0 THEN level_files[1] ELSE sr.file
    IN  IF skip THEN CompositeTarget(sorted_runs, i - 1, props_ok, acc)
        ELSE IF sr.level > 0 /\ Len(level_files) > 1
        THEN [acc EXCEPT !.level = sr.level, !.files = <<>>]
        ELSE IF props_ok /\ f.read_amp >= acc.max_read_amp
        THEN CompositeTarget(sorted_runs, i - 1, props_ok,
               [level |-> sr.level, files |-> <<f>>,
                max_read_amp |-> f.read_amp])
        ELSE CompositeTarget(sorted_runs, i - 1, props_ok, acc)

\* what the passes over the map elements of the chosen file come to
\* (lines 1464-1746): the iterator fails or an element does not decode;
\* the first pass finds ranges to collapse into a link file; the second or
\* the third finds ranges to rewrite as essence files; or none does
MapScanOutcomes == {"failure", "link", "essence", "nothing"}

\* the lambda new_compaction
CompositeParams(inputs, compaction_purpose, max_subcompactions) ==
  [CompactionParams EXCEPT
     !.inputs = <<inputs>>,
     !.output_level = inputs.level,
     !.output_path_id =
        PathIdFor(SumSeq([i \in 1..Len(inputs.files) |->
                            inputs.files[i].file_size])),
     !.max_subcompactions = max_subcompactions,
     !.partial_compaction = TRUE,
     !.compaction_purpose = compaction_purpose,
     !.compaction_reason = "kCompositeAmplification"]

\* Composite without the returns of lines 1470-1475, 1519-1522 and
\* 1580-1583: a scan that fails counts as one that finds nothing
PickCompositeUnchecked(sorted_runs, props_ok, scan) ==
  LET t == CompositeTarget(sorted_runs, Len(sorted_runs), props_ok,
             [level |-> -1, files |-> <<>>, max_read_amp |-> 0])
  IN  IF ~HasSpaceAmplification \/ t.level = -1 THEN nullptr
      ELSE IF t.files = <<>>
      THEN CompositeParams(LevelInputs(t.level, LevelFiles(t.level)),
                           kMapSst, 1)
      ELSE IF scan = "link"
      THEN CompositeParams(LevelInputs(t.level, t.files), kLinkSst,
                           opts.max_subcompactions)
      ELSE IF scan = "essence"
      THEN CompositeParams(LevelInputs(t.level, t.files), kEssenceSst,
                           opts.max_subcompactions)
      ELSE IF t.level # 0
      THEN CompositeParams(LevelInputs(t.level, t.files), kMapSst, 1)
      ELSE nullptr

PickCompositeCompaction(sorted_runs, props_ok, scan) ==
  LET t == CompositeTarget(sorted_runs, Len(sorted_runs), props_ok,
             [level |-> -1, files |-> <<>>, max_read_amp |-> 0])
  IN  IF ~HasSpaceAmplification \/ t.level = -1 THEN nullptr
      ELSE IF t.files = <<>>
      THEN CompositeParams(LevelInputs(t.level, LevelFiles(t.level)),
                           kMapSst, 1)
      ELSE IF scan = "failure" THEN nullptr
      ELSE IF scan = "link"
      THEN CompositeParams(LevelInputs(t.level, t.files), kLinkSst,
                           opts.max_subcompactions)
      ELSE IF scan = "essence"
      THEN CompositeParams(LevelInputs(t.level, t.files), kEssenceSst,
                           opts.max_subcompactions)
      ELSE IF t.level # 0
      THEN CompositeParams(LevelInputs(t.level, t.files), kMapSst, 1)
      ELSE nullptr

(***************************************************************************)
(* The classification passes of PickCompositeCompaction over the map       *)
(* elements of the one input file (lines 1398-1427 and 1464-1760).  An     *)
(* element is [smallest_key_, largest_key_, link_, preface, decodes]:      *)
(* preface is what IsPrefaceRange says of the element and the file it      *)
(* links, decodes is whether MapSstElement::Decode accepts it.  The        *)
(* iterator is a position in the sequence of elements.                     *)
(***************************************************************************)
\* a RangeStorage as it is constructed
RangeStorage ==
  [start |-> 0, limit |-> 0, include_start |-> TRUE, include_limit |-> TRUE]

\* MaxFileSizeForLevel for the universal style: the base size at every level
MaxFileSizeForLevel(level) == opts.target_file_size_base

\* the lambda is_perfect of lines 1476-1493
is_perfect(e) ==
  /\ Len(e.link_) = 1
  /\ e.link_[1].file_number \in DOMAIN depend_files
  /\ depend_files[e.link_[1].file_number].sst_purpose = 0
  /\ e.preface

\* the lambda estimate_size of lines 1622-1628
estimate_size(element) ==
  SumSeq([j \in 1..Len(element.link_) |-> element.link_[j].size])

\* the lambda set_include_limit of lines 1508-1513 and whether its
\* assertion holds
set_include_limit(range, inputs) ==
  [range EXCEPT !.include_limit = TRUE, !.limit = inputs.files[1].largest.u]

LimitWithinFile(range, inputs) == range.limit <= inputs.files[1].largest.u

\* the loop of lines 1524-1536 over the links of one element
RECURSIVE UseLinks(_, _, _)
UseLinks(link_, j, file_used) ==
  IF j > Len(link_) THEN file_used
  ELSE LET l == link_[j]
       IN  UseLinks(link_, j + 1,
             IF l.file_number \in DOMAIN file_used
             THEN [file_used EXCEPT ![l.file_number].used = @ + l.size]
             ELSE file_used @@
                  (l.file_number :>
                     [size |-> GetFilesSize(nullptr, l.file_number),
                      used |-> l.size]))

\* the test of line 1537: more than two links and one of them more than
\* twice the others together
LinkCollapses(e) ==
  LET sum == estimate_size(e)
      max == CHOOSE m \in {e.link_[j].size : j \in 1..Len(e.link_)} :
               \A j \in 1..Len(e.link_) : e.link_[j].size <= m
  IN  Len(e.link_) > 2 /\ (sum - max) * 2 < max

\* the first pass (lines 1516-1567) from element i on; st holds has_start,
\* range, input_range, file_used, whether an element failed to decode and
\* whether the assertion of set_include_limit held
RECURSIVE LinkPass(_, _, _, _)
LinkPass(elems, i, inputs, st) ==
  IF i > Len(elems)
  THEN IF st.has_start
       THEN [st EXCEPT !.input_range =
                          Append(@, set_include_limit(st.range, inputs)),
                       !.asserts = @ /\ LimitWithinFile(st.range, inputs)]
       ELSE st
  ELSE
    LET e == elems[i]
        used == [st EXCEPT !.file_used = UseLinks(e.link_, 1, @)]
        closed == [st.range EXCEPT !.limit = e.smallest_key_.u,
                                   !.include_start = TRUE,
                                   !.include_limit = FALSE]
        emitted == Append(st.input_range, closed)
    IN  IF ~e.decodes THEN [st EXCEPT !.failed = TRUE]
        ELSE IF is_perfect(e) THEN LinkPass(elems, i + 1, inputs, st)
        ELSE IF LinkCollapses(e)
        THEN LinkPass(elems, i + 1, inputs,
               [used EXCEPT !.has_start = TRUE,
                            !.range.start = IF st.has_start THEN @
                                            ELSE e.smallest_key_.u,
                            !.range.limit = e.largest_key_.u])
        ELSE IF st.has_start /\ e.smallest_key_.u # st.range.limit
        THEN IF Len(emitted) >= opts.max_subcompactions
             THEN [used EXCEPT !.has_start = FALSE, !.range = closed,
                               !.input_range = emitted]
             ELSE LinkPass(elems, i + 1, inputs,
                    [used EXCEPT !.has_start = FALSE, !.range = closed,
                                 !.input_range = emitted])
        ELSE LinkPass(elems, i + 1, inputs, [used EXCEPT !.has_start = FALSE])

\* the elements that enter the priority heap (lines 1578-1603): those
\* whose links are all files of file_used
InHeap(elems, file_used) ==
  {i \in 1..Len(elems) :
     \A j \in 1..Len(elems[i].link_) :
       elems[i].link_[j].file_number \in DOMAIN file_used}

\* the size and the used bytes that line 1586-1593 add up for an element
HeapSize(e, file_used) ==
  SumSeq([j \in 1..Len(e.link_) |-> file_used[e.link_[j].file_number].size])

HeapUsed(e, file_used) ==
  SumSeq([j \in 1..Len(e.link_) |-> file_used[e.link_[j].file_number].used])

\* p of element a is below p of element b, p being
\* link count + 2 * (size - min(used, size)) / size; with a size of 0 p is
\* not a number and compares below nothing
PriorityBelow(a, b, file_used) ==
  LET sa == HeapSize(a, file_used)
      sb == HeapSize(b, file_used)
      wa == sa - Min2(HeapUsed(a, file_used), sa)
      wb == sb - Min2(HeapUsed(b, file_used), sb)
  IN  /\ sa # 0
      /\ sb # 0
      /\ (Len(a.link_) * sa + 2 * wa) * sb < (Len(b.link_) * sb + 2 * wb) * sa

\* the orders in which the heap can hand out its elements: no element
\* comes after one of a lower priority; elements of one priority come in
\* the order the heap happens to keep them
PopOrders(elems, file_used) ==
  LET heap == InHeap(elems, file_used)
      n == Cardinality(heap)
  IN  {order \in [1..n -> heap] :
         /\ \A i, j \in 1..n : i # j => order[i] # order[j]
         /\ \A i, j \in 1..n :
              i < j => ~PriorityBelow(elems[order[i]], elems[order[j]],
                                      file_used)}

\* the loop of lines 1642-1660: the iterator stands on element i
RECURSIVE ExtendForward(_, _, _, _, _)
ExtendForward(elems, i, inputs, max_file_size_for_leval, st) ==
  IF ~(st.sum < max_file_size_for_leval) THEN st
  ELSE IF i + 1 > Len(elems)
  THEN [st EXCEPT !.range = set_include_limit(st.range, inputs),
                  !.asserts = @ /\ LimitWithinFile(st.range, inputs)]
  ELSE LET e == elems[i + 1]
       IN  IF \/ (i + 1) \in st.unique_check
              \/ is_perfect(e) /\ e.smallest_key_.u # st.range.limit
           THEN [st EXCEPT !.range.limit = e.smallest_key_.u]
           ELSE ExtendForward(elems, i + 1, inputs, max_file_size_for_leval,
                  [st EXCEPT !.range.limit = e.largest_key_.u,
                             !.sum = @ + estimate_size(e),
                             !.unique_check = @ \cup {i + 1}])

\* the do-while of lines 1663-1675: the iterator stands on element i
RECURSIVE ExtendBackward(_, _, _, _)
ExtendBackward(elems, i, max_file_size_for_leval, st) ==
  IF i - 1 < 1 \/ (i - 1) \in st.unique_check THEN st
  ELSE IF is_perfect(elems[i - 1]) THEN st
  ELSE LET e == elems[i - 1]
           taken == [st EXCEPT !.range.start = e.smallest_key_.u,
                               !.sum = @ + estimate_size(e),
                               !.unique_check = @ \cup {i - 1}]
       IN  IF taken.sum < max_file_size_for_leval
           THEN ExtendBackward(elems, i - 1, max_file_size_for_leval, taken)
           ELSE taken

\* the range around element k (lines 1637-1676); st holds range, sum,
\* unique_check and asserts
HeapRange(elems, k, inputs, max_file_size_for_leval, st) ==
  LET e == elems[k]
      first == [st EXCEPT !.range = [start |-> e.smallest_key_.u,
                                     limit |-> e.largest_key_.u,
                                     include_start |-> TRUE,
                                     include_limit |-> FALSE],
                          !.sum = estimate_size(e),
                          !.unique_check = @ \cup {k}]
      forward == ExtendForward(elems, k, inputs, max_file_size_for_leval, first)
  IN  IF forward.sum < max_file_size_for_leval
      THEN ExtendBackward(elems, k, max_file_size_for_leval, forward)
      ELSE forward

\* the while of lines 1629-1681 without the test of line 1678
RECURSIVE HeapPassUncapped(_, _, _, _, _, _)
HeapPassUncapped(elems, order, n, inputs, max_file_size_for_leval, st) ==
  IF n > Len(order) THEN st
  ELSE IF order[n] \in st.unique_check
  THEN HeapPassUncapped(elems, order, n + 1, inputs, max_file_size_for_leval, st)
  ELSE LET r == HeapRange(elems, order[n], inputs, max_file_size_for_leval, st)
       IN  HeapPassUncapped(elems, order, n + 1, inputs,
                            max_file_size_for_leval,
                            [r EXCEPT !.input_range = Append(@, r.range)])

\* the while of lines 1629-1681 over the elements the heap hands out
RECURSIVE HeapPass(_, _, _, _, _, _)
HeapPass(elems, order, n, inputs, max_file_size_for_leval, st) ==
  IF n > Len(order) THEN st
  ELSE IF order[n] \in st.unique_check
  THEN HeapPass(elems, order, n + 1, inputs, max_file_size_for_leval, st)
  ELSE LET r == HeapRange(elems, order[n], inputs, max_file_size_for_leval, st)
           emitted == [r EXCEPT !.input_range = Append(@, r.range)]
       IN  IF Len(emitted.input_range) >= opts.max_subcompactions
           THEN emitted
           ELSE HeapPass(elems, order, n + 1, inputs, max_file_size_for_leval,
                         emitted)

\* the comparison of lines 1684-1697
RangeBefore(a, b) ==
  IF a.limit # b.limit THEN a.limit < b.limit
  ELSE IF a.include_limit # b.include_limit THEN b.include_limit
  ELSE IF a.start # b.start THEN a.start < b.start
  ELSE a.include_start /\ ~b.include_start

\* std::sort with that comparison
RECURSIVE SortRanges(_)
SortRanges(input_range) ==
  IF input_range = <<>> THEN <<>>
  ELSE LET k == CHOOSE i \in 1..Len(input_range) :
                  \A j \in 1..Len(input_range) :
                    ~RangeBefore(input_range[j], input_range[i])
       IN  <<input_range[k]>> \o
           SortRanges([j \in 1..(Len(input_range) - 1) |->
                         IF j < k THEN input_range[j] ELSE input_range[j + 1]])

\* the third pass (lines 1703-1746) from element i on
RECURSIVE EssenceSweep(_, _, _, _)
EssenceSweep(elems, i, inputs, st) ==
  IF i > Len(elems)
  THEN IF st.has_start
       THEN [st EXCEPT !.input_range =
                          Append(@, [set_include_limit(st.range, inputs)
                                       EXCEPT !.include_start = TRUE]),
                       !.asserts = @ /\ LimitWithinFile(st.range, inputs)]
       ELSE st
  ELSE
    LET e == elems[i]
        closed == [st.range EXCEPT !.limit = e.smallest_key_.u,
                                   !.include_start = TRUE,
                                   !.include_limit = FALSE]
        emitted == Append(st.input_range, closed)
        one_link == [st EXCEPT !.asserts = @ /\ Len(e.link_) = 1]
    IN  IF st.has_start /\ is_perfect(e) /\ e.smallest_key_.u # st.range.limit
        THEN IF Len(emitted) >= opts.max_subcompactions
             THEN [one_link EXCEPT !.has_start = FALSE, !.range = closed,
                                   !.input_range = emitted]
             ELSE EssenceSweep(elems, i + 1, inputs,
                    [one_link EXCEPT !.has_start = FALSE, !.range = closed,
                                     !.input_range = emitted])
        ELSE IF st.has_start
        THEN EssenceSweep(elems, i + 1, inputs,
               [one_link EXCEPT !.range.limit = e.largest_key_.u])
        ELSE IF is_perfect(e)
        THEN EssenceSweep(elems, i + 1, inputs, one_link)
        ELSE EssenceSweep(elems, i + 1, inputs,
               [one_link EXCEPT !.has_start = TRUE,
                                !.range.start = e.smallest_key_.u,
                                !.range.limit = e.largest_key_.u])

\* new_compaction without the removal of empty ranges
RemoveEmptyRangesNone(input_range, i) == input_range

\* the removal of empty ranges in new_compaction (lines 1400-1411): it
\* stands on range i
RECURSIVE RemoveEmptyRanges(_, _)
RemoveEmptyRanges(input_range, i) ==
  IF i > Len(input_range) THEN input_range
  ELSE IF \/ input_range[i].start = input_range[i - 1].start
          \/ input_range[i].limit = input_range[i - 1].limit
  THEN RemoveEmptyRanges(
         [j \in 1..(Len(input_range) - 1) |->
            IF j < i - 1 THEN input_range[j]
            ELSE IF j = i - 1
            THEN [input_range[i - 1]
                    EXCEPT !.limit = input_range[i].limit,
                           !.include_limit = input_range[i].include_limit]
            ELSE input_range[j + 1]], i)
  ELSE RemoveEmptyRanges(input_range, i + 1)

\* the three assertions of lines 1412-1427; std::is_sorted fails on a
\* range that compares below its predecessor
RangeAssertions(input_range) ==
  /\ \A i \in 1..(Len(input_range) - 1) :
       ~(input_range[i + 1].start < input_range[i].start)
  /\ \A i \in 1..(Len(input_range) - 1) :
       ~(input_range[i + 1].limit < input_range[i].limit)
  /\ \A i \in 1..Len(input_range) :
       ~(input_range[i].start > input_range[i].limit)

\* new_compaction with the ranges a pass collected: the plan and whether
\* every assertion on the way held
NewCompaction(inputs, compaction_purpose, max_subcompactions, input_range, asserts) ==
  LET ranges == RemoveEmptyRanges(input_range, 2)
  IN  [c |-> [CompositeParams(inputs, compaction_purpose, max_subcompactions)
                EXCEPT !.input_range = ranges],
       asserts |-> asserts /\ RangeAssertions(ranges)]

\* the locals of lines 1494-1515 before the first pass
PassStart ==
  [has_start |-> FALSE, range |-> RangeStorage, input_range |-> <<>>,
   file_used |-> <<>>, failed |-> FALSE, asserts |-> TRUE]

\* lines 1457-1760 for the input file the strategy settled on: iter_ok is
\* whether the iterator opens without an error, order the order in which
\* the heap hands out its elements
CompositePasses(inputs, elems, iter_ok, order) ==
  LET link == LinkPass(elems, 1, inputs, PassStart)
      max_file_size_for_leval ==
        2 * MaxFileSizeForLevel(Max2(1, inputs.level))
      heap == HeapPass(elems, order, 1, inputs, max_file_size_for_leval,
                [range |-> link.range, sum |-> 0, unique_check |-> {},
                 input_range |-> <<>>, asserts |-> link.asserts])
      sweep == EssenceSweep(elems, 1, inputs,
                 [has_start |-> FALSE, range |-> heap.range,
                  input_range |-> <<>>, asserts |-> heap.asserts])
  IN  IF ~iter_ok \/ link.failed THEN [c |-> nullptr, asserts |-> TRUE]
      ELSE IF link.input_range # <<>>
      THEN NewCompaction(inputs, kLinkSst, opts.max_subcompactions,
                         link.input_range, link.asserts)
      ELSE IF \E i \in 1..Len(elems) : ~elems[i].decodes
      THEN [c |-> nullptr, asserts |-> link.asserts]
      ELSE IF heap.input_range # <<>>
      THEN NewCompaction(inputs, kEssenceSst, opts.max_subcompactions,
                         SortRanges(heap.input_range), heap.asserts)
      ELSE IF sweep.input_range # <<>>
      THEN NewCompaction(inputs, kEssenceSst, opts.max_subcompactions,
                         sweep.input_range, sweep.asserts)
      ELSE IF inputs.level # 0
      THEN NewCompaction(inputs, kMapSst, 1, <<>>, sweep.asserts)
      ELSE [c |-> nullptr, asserts |-> sweep.asserts]

(***************************************************************************)
(* IsInputFilesNonOverlapping                                              *)
(***************************************************************************)
\* Compaction::input(l, i), l and i 0-based
InputFile(c, l, i) == c.inputs[l + 1].files[i + 1]

\* the InputFileInfo entries the heap starts with
create_level_heap(c) ==
  {info \in [level : 0..(Len(c.inputs) - 1), index : 0..Len(InputFiles(c.inputs))] :
     /\ info.index < Len(c.inputs[info.level + 1].files)
     /\ \/ info.level = 0 /\ StartLevel(c) = 0
        \/ info.index = 0}

\* the loop of lines 133-163; prev is nullptr in the first iteration
RECURSIVE HeapWalk(_, _, _)
HeapWalk(c, smallest_key_priority_q, prev) ==
  IF smallest_key_priority_q = {} THEN TRUE
  ELSE
    LET curr == CHOOSE i1 \in smallest_key_priority_q :
                  \A i2 \in smallest_key_priority_q :
                    IcmpCompare(InputFile(c, i1.level, i1.index).smallest,
                                InputFile(c, i2.level, i2.index).smallest) <= 0
        next == IF /\ c.inputs[curr.level + 1].level # 0
                   /\ curr.index < Len(c.inputs[curr.level + 1].files) - 1
                THEN {[level |-> curr.level, index |-> curr.index + 1]}
                ELSE {}
    IN  IF /\ prev # nullptr
           /\ IcmpCompare(InputFile(c, prev.level, prev.index).largest,
                          InputFile(c, curr.level, curr.index).smallest) >= 0
        THEN FALSE
        ELSE HeapWalk(c, (smallest_key_priority_q \ {curr}) \cup next, curr)

IsInputFilesNonOverlapping(c) ==
  LET smallest_key_priority_q == create_level_heap(c)
  IN  IF Cardinality(smallest_key_priority_q) <= 1 THEN TRUE
      ELSE HeapWalk(c, smallest_key_priority_q, nullptr)

(***************************************************************************)
(* PickCompaction                                                          *)
(***************************************************************************)
\* size_t(-1)
kNoTarget == -1

\* the loop of lines 336-365 from run i on: the read amplification counted
\* so far and whether the loop left at the break of line 346
RECURSIVE LevelReadAmp(_, _, _, _)
LevelReadAmp(sorted_runs, i, props_ok, level_read_amp_count) ==
  IF i > Len(sorted_runs)
  THEN [count |-> level_read_amp_count, rebuild |-> FALSE]
  ELSE
    LET sr == sorted_runs[i]
        level_files == LevelFiles(sr.level)
        skip == IF sr.level > 0 THEN ~HasSpaceAmplificationAt(sr.level)
                ELSE sr.file.sst_purpose # kMapSst
        f == IF sr.level > 0 THEN level_files[1] ELSE sr.file
    IN  IF skip
        THEN LevelReadAmp(sorted_runs, i + 1, props_ok, level_read_amp_count)
        ELSE IF sr.level > 0 /\ Len(level_files) > 1
        THEN [count |-> level_read_amp_count, rebuild |-> TRUE]
        ELSE LevelReadAmp(sorted_runs, i + 1, props_ok,
               IF props_ok /\ f.read_amp > 1
               THEN level_read_amp_count + f.read_amp
               ELSE level_read_amp_count)

\* lines 318-370: reduce_sorted_run_target when line 371 tests it
ReduceSortedRunTarget(sorted_runs, props_ok) ==
  LET trigger == opts.level0_file_num_compaction_trigger
      n == Len(sorted_runs)
      has_map_compaction ==
        \E cip \in compactions_in_progress_ : cip.compaction_purpose = kMapSst
      moved == IF has_map_compaction THEN nullptr ELSE PickTrivialMoveCompaction
      initial_target == trigger + opts.num_levels - 1
      amp == LevelReadAmp(sorted_runs, 1, props_ok, 0)
  IN  IF has_map_compaction \/ moved # nullptr THEN kNoTarget
      ELSE IF opts.table_cache /\ n > 1 /\ n <= initial_target
      THEN IF amp.rebuild \/ amp.count < initial_target
           THEN Max2(trigger, n - 1)
           ELSE initial_target
      ELSE initial_target

\* lines 318-379: the plan, the runs with their wait_reduce tags, and
\* whether the inputs vector was written out of bounds
PickLazy(sorted_runs, props_ok) ==
  LET n == Len(sorted_runs)
      has_map_compaction ==
        \E cip \in compactions_in_progress_ : cip.compaction_purpose = kMapSst
      moved == IF has_map_compaction THEN nullptr ELSE PickTrivialMoveCompaction
      reduce_sorted_run_target == ReduceSortedRunTarget(sorted_runs, props_ok)
  IN  IF reduce_sorted_run_target # kNoTarget /\ n > reduce_sorted_run_target
      THEN PickCompactionToReduceSortedRuns(sorted_runs,
                                            reduce_sorted_run_target)
      ELSE [c |-> moved, sorted_runs |-> sorted_runs, out_of_bounds |-> FALSE]

\* lines 380-414 alone: the eager strategies without the forced pass of
\* lines 416-429
PickEagerUnforced(sorted_runs) ==
  LET amp == PickCompactionToReduceSizeAmp(sorted_runs)
      by_ratio == PickCompactionToReduceSortedRunsOld(
                    U64(opts.size_ratio), UINT_MAX, sorted_runs)
  IN  IF amp # nullptr THEN amp ELSE by_ratio

\* lines 380-430
PickEager(sorted_runs) ==
  LET trigger == opts.level0_file_num_compaction_trigger
      amp == PickCompactionToReduceSizeAmp(sorted_runs)
      by_ratio == PickCompactionToReduceSortedRunsOld(
                    U64(opts.size_ratio), UINT_MAX, sorted_runs)
      num_sr_not_compacted ==
        Cardinality({i \in 1..Len(sorted_runs) :
                       ~sorted_runs[i].being_compacted})
  IN  IF amp # nullptr THEN amp
      ELSE IF by_ratio # nullptr THEN by_ratio
      ELSE IF num_sr_not_compacted > trigger
      THEN PickCompactionToReduceSortedRunsOld(
             UINT_MAX, U64(num_sr_not_compacted - trigger + 1), sorted_runs)
      ELSE nullptr

\* lines 432-445: `first` is what lines 313-430 came to
PickFallbacks(first, marked, props_ok, scan) ==
  LET composite == IF first.c = nullptr /\ opts.table_cache
                   THEN PickCompositeCompaction(first.sorted_runs, props_ok,
                                                scan)
                   ELSE first.c
  IN  [c |-> IF composite = nullptr
             THEN PickDeleteTriggeredCompaction(marked)
             ELSE composite,
       out_of_bounds |-> first.out_of_bounds]

\* the strategies consulted whatever the marks, the space amplification and
\* the number of runs are
PickFromAlways(sorted_runs, marked, props_ok, scan) ==
  IF Len(sorted_runs) = 0 THEN [c |-> nullptr, out_of_bounds |-> FALSE]
  ELSE PickFallbacks(
         IF opts.enable_lazy_compaction
         THEN PickLazy(sorted_runs, props_ok)
         ELSE [c |-> PickEager(sorted_runs), sorted_runs |-> sorted_runs,
               out_of_bounds |-> FALSE],
         marked, props_ok, scan)

\* lines 295-445 with the sorted runs of line 292
PickFrom(sorted_runs, marked, props_ok, scan) ==
  LET trigger == opts.level0_file_num_compaction_trigger
      n == Len(sorted_runs)
      idle == [c |-> nullptr, sorted_runs |-> sorted_runs,
               out_of_bounds |-> FALSE]
  IN  IF \/ n = 0
         \/ /\ FilesMarkedForCompaction = {}
            /\ ~HasSpaceAmplification
            /\ n < trigger
      THEN [c |-> nullptr, out_of_bounds |-> FALSE]
      ELSE PickFallbacks(
             IF HasSpaceAmplification \/ n >= trigger
             THEN IF opts.enable_lazy_compaction
                  THEN PickLazy(sorted_runs, props_ok)
                  ELSE [idle EXCEPT !.c = PickEager(sorted_runs)]
             ELSE idle,
             marked, props_ok, scan)

\* lines 291-451: the plan that the strategies come up with, or nullptr;
\* marked, props_ok and scan are what PickFilesMarkedForCompaction, the
\* table cache and the map-element iterator deliver during the call
PickStrategies(marked, props_ok, scan) ==
  PickFrom(CalculateSortedRuns, marked, props_ok, scan)

\* a flag that does not look for space amplification in the input levels
TrivialMoveFlagAnyLevel(c) ==
  IF opts.allow_trivial_move THEN IsInputFilesNonOverlapping(c)
  ELSE c.is_trivial_move

\* lines 453-469: the trivial-move flag of the plan
TrivialMoveFlag(c) ==
  LET allow_trivial_move ==
        /\ opts.allow_trivial_move
        /\ \/ c.compaction_reason = "kTrivialMoveLevel"
           \/ \A i \in 1..Len(c.inputs) :
                ~HasSpaceAmplificationAt(c.inputs[i].level)
  IN  IF allow_trivial_move THEN IsInputFilesNonOverlapping(c)
      ELSE c.is_trivial_move

\* GetSmallestLargestSeqno
GetSmallestLargestSeqno(files) ==
  [smallest_seqno |->
     CHOOSE q \in {files[i].smallest_seqno : i \in 1..Len(files)} :
       \A i \in 1..Len(files) : q <= files[i].smallest_seqno,
   largest_seqno |->
     CHOOSE q \in {files[i].largest_seqno : i \in 1..Len(files)} :
       \A i \in 1..Len(files) : q >= files[i].largest_seqno]

\* lines 487-506 from input level level_index (0-based) on: whether the
\* assertion of line 502 holds throughout
RECURSIVE SeqnoAssertion(_, _, _, _)
SeqnoAssertion(c, level_index, prev_smallest_seqno, is_first) ==
  IF level_index >= Len(c.inputs) THEN TRUE
  ELSE IF c.inputs[level_index + 1].files = <<>>
  THEN SeqnoAssertion(c, level_index + 1, prev_smallest_seqno, is_first)
  ELSE LET q == GetSmallestLargestSeqno(c.inputs[level_index + 1].files)
       IN  /\ \/ is_first
              \/ prev_smallest_seqno = 0
              \/ prev_smallest_seqno > q.largest_seqno
           /\ SeqnoAssertion(c, level_index + 1, q.smallest_seqno, FALSE)

\* lines 473-506
SeqnoAssertionHolds(c) ==
  LET files == c.inputs[1].files
  IN  IF StartLevel(c) = 0
      THEN SeqnoAssertion(c, 1,
             IF files = <<>> THEN 0 ELSE files[Len(files)].smallest_seqno,
             files = <<>>)
      ELSE SeqnoAssertion(c, 0, 0, TRUE)

(***************************************************************************)
(* CompactRange and PickRangeCompaction                                    *)
(***************************************************************************)
\* a pointer to a set of file numbers is nullptr or [files |-> the set]
\* the lambda hit_sst of lines 530-551
HitSst(f, files_being_compact) ==
  \/ f.num \in files_being_compact.files
  \/ \E i \in 1..Len(f.sst_depend) :
       \/ f.sst_depend[i] \in files_being_compact.files
       \/ /\ f.sst_depend[i] \in DOMAIN depend_files
          /\ \E j \in 1..Len(depend_files[f.sst_depend[i]].sst_depend) :
               depend_files[f.sst_depend[i]].sst_depend[j]
                 \in files_being_compact.files

\* the levels that hold a file the caller asked for (lines 552-562)
HitLevels(files_being_compact) ==
  {level \in 0..(NumLevels - 1) :
     \E i \in 1..NumLevelFiles(level) :
       HitSst(LevelFiles(level)[i], files_being_compact)}

\* what a map-element iterator over some files delivers: the elements of
\* a file that has them written out in elems; otherwise an essence file is
\* one element that links the file itself, a map or link file one element
\* that links the files it depends on
MapElements(files) ==
  Flatten([i \in 1..Len(files) |->
     IF files[i].elems # <<>> THEN files[i].elems
     ELSE
     <<[smallest_key_ |-> files[i].smallest,
        largest_key_ |-> files[i].largest,
        link_ |-> IF files[i].sst_purpose = kEssenceSst
                  THEN <<[file_number |-> files[i].num,
                          size |-> files[i].file_size]>>
                  ELSE [j \in 1..Len(files[i].sst_depend) |->
                          [file_number |-> files[i].sst_depend[j],
                           size |-> GetFilesSize(nullptr, files[i].sst_depend[j])]],
        preface |-> files[i].sst_purpose = kEssenceSst,
        decodes |-> TRUE]>>])

\* MapSstElement::EstimateSize
EstimateSize(e) == SumSeq([j \in 1..Len(e.link_) |-> e.link_[j].size])

\* the lambda need_compact of lines 1804-1829
NeedCompact(e, begin, end, files_being_compact) ==
  /\ ~(begin # nullptr /\ IcmpCompare(e.largest_key_, begin) < 0)
  /\ ~(end # nullptr /\ IcmpCompare(e.smallest_key_, end) > 0)
  /\ \E j \in 1..Len(e.link_) :
       \/ e.link_[j].file_number \in files_being_compact.files
       \/ /\ e.link_[j].file_number \in DOMAIN depend_files
          /\ \E k \in 1..Len(depend_files[e.link_[j].file_number].sst_depend) :
               depend_files[e.link_[j].file_number].sst_depend[k]
                 \in files_being_compact.files

\* the sweep of lines 1834-1877 from element i on; st holds has_start,
\* range, input_range, subcompact_size and estimated_total_size.  Two
\* fields are kept for the properties only: covered, the size of the
\* elements of the running sub-range, and capped, the covered sizes of the
\* sub-ranges that the test of line 1840 closed.
RECURSIVE RangeSweep(_, _, _, _, _, _)
RangeSweep(elems, i, begin, end, files_being_compact, st) ==
  IF i > Len(elems) THEN st
  ELSE
    LET e == elems[i]
        need == NeedCompact(e, begin, end, files_being_compact)
        closed == [start |-> st.range.start, limit |-> e.smallest_key_.u,
                   include_start |-> TRUE, include_limit |-> FALSE]
        emitted == Append(st.input_range, closed)
        full == Len(emitted) >= opts.max_subcompactions
    IN  IF st.has_start /\ need /\ st.subcompact_size < opts.max_compaction_bytes
        THEN RangeSweep(elems, i + 1, begin, end, files_being_compact,
               [st EXCEPT !.subcompact_size = @ + EstimateSize(e),
                          !.covered = @ + EstimateSize(e),
                          !.range.limit = e.largest_key_.u])
        ELSE IF st.has_start /\ need
        THEN IF full
             THEN [st EXCEPT !.has_start = FALSE, !.range = closed,
                             !.input_range = emitted,
                             !.capped = Append(@, st.covered),
                             !.estimated_total_size = @ + st.subcompact_size]
             ELSE RangeSweep(elems, i + 1, begin, end, files_being_compact,
                    [st EXCEPT
                       !.range = [closed EXCEPT !.start = e.smallest_key_.u,
                                                !.limit = e.largest_key_.u],
                       !.input_range = emitted,
                       !.capped = Append(@, st.covered),
                       !.covered = EstimateSize(e),
                       !.estimated_total_size = @ + st.subcompact_size,
                       !.subcompact_size = @ + EstimateSize(e)])
        ELSE IF st.has_start
        THEN IF full
             THEN [st EXCEPT !.has_start = FALSE, !.range = closed,
                             !.input_range = emitted,
                             !.estimated_total_size = @ + st.subcompact_size]
             ELSE RangeSweep(elems, i + 1, begin, end, files_being_compact,
                    [st EXCEPT !.has_start = FALSE, !.range = closed,
                               !.input_range = emitted,
                               !.covered = 0,
                               !.estimated_total_size = @ + st.subcompact_size,
                               !.subcompact_size = 0])
        ELSE IF ~need
        THEN RangeSweep(elems, i + 1, begin, end, files_being_compact, st)
        ELSE RangeSweep(elems, i + 1, begin, end, files_being_compact,
               [st EXCEPT !.has_start = TRUE,
                          !.subcompact_size = @ + EstimateSize(e),
                          !.covered = EstimateSize(e),
                          !.range.start = e.smallest_key_.u,
                          !.range.limit = e.largest_key_.u])

\* the locals of lines 1830-1833 before the sweep
SweepStart ==
  [has_start |-> FALSE,
   range |-> [start |-> 0, limit |-> 0, include_start |-> TRUE,
              include_limit |-> TRUE],
   input_range |-> <<>>, subcompact_size |-> 0, estimated_total_size |-> 0,
   covered |-> 0, capped |-> <<>>]

\* the plan and *manual_conflict; iter_ok is whether the map-element
\* iterator opens without an error
PickRangeCompaction(level, begin, end, files_being_compact, iter_ok) ==
  LET level_files == LevelFiles(level)
      inputs == LevelInputs(level, level_files)
      sw == RangeSweep(MapElements(level_files), 1, begin, end,
              files_being_compact, SweepStart)
      input_range ==
        IF sw.has_start
        THEN Append(sw.input_range,
               [sw.range EXCEPT !.include_start = TRUE,
                                !.include_limit = TRUE,
                                !.limit = IF level = 0
                                          THEN LargestUserKey(level_files)
                                          ELSE level_files[Len(level_files)].largest.u])
        ELSE sw.input_range
      estimated_total_size ==
        sw.estimated_total_size + (IF sw.has_start THEN sw.subcompact_size ELSE 0)
  IN  IF \/ files_being_compact = nullptr
         \/ files_being_compact.files = {}
         \/ level_files = <<>>
      THEN [c |-> nullptr, manual_conflict |-> FALSE]
      ELSE IF AreFilesInCompaction(level_files)
      THEN [c |-> nullptr, manual_conflict |-> TRUE]
      ELSE IF level = 0 /\ Len(level_files) > 1
      THEN [c |-> [CompactionParams EXCEPT
                     !.inputs = <<inputs>>,
                     !.output_level = level,
                     !.output_path_id = PathIdFor(1048576),
                     !.compaction_purpose = kMapSst],
            manual_conflict |-> FALSE]
      ELSE IF ~iter_ok \/ input_range = <<>>
      THEN [c |-> nullptr, manual_conflict |-> FALSE]
      ELSE [c |-> [CompactionParams EXCEPT
                     !.inputs = <<inputs>>,
                     !.output_level = level,
                     !.output_path_id = PathIdFor(estimated_total_size),
                     !.input_range = input_range,
                     !.partial_compaction = TRUE,
                     !.compaction_purpose = kEssenceSst],
            manual_conflict |-> FALSE]

\* the all-levels path without the checks of lines 595-622
CompactAllLevelsUnchecked(output_level, output_path_id, max_subcompactions, enable_lazy_compaction) ==
  LET nonempty == {l \in 0..(NumLevels - 1) : NumLevelFiles(l) # 0}
      start_level == CHOOSE l \in nonempty : \A o \in nonempty : l <= o
  IN  IF nonempty = {} THEN [c |-> nullptr, manual_conflict |-> FALSE]
      ELSE [c |-> [CompactionParams EXCEPT
                     !.inputs = [k \in 1..(NumLevels - start_level) |->
                                   LevelInputs(start_level + k - 1,
                                               LevelFiles(start_level + k - 1))],
                     !.output_level = output_level,
                     !.output_path_id = output_path_id,
                     !.max_subcompactions =
                        IF enable_lazy_compaction THEN 1 ELSE max_subcompactions,
                     !.manual_compaction = TRUE,
                     !.compaction_purpose =
                        IF enable_lazy_compaction THEN kMapSst ELSE kEssenceSst],
            manual_conflict |-> FALSE]

\* lines 586-646, the all-levels path: the plan and *manual_conflict
CompactAllLevels(output_level, output_path_id, max_subcompactions, enable_lazy_compaction) ==
  LET nonempty == {l \in 0..(NumLevels - 1) : NumLevelFiles(l) # 0}
      start_level == CHOOSE l \in nonempty : \A o \in nonempty : l <= o
      inputs == [k \in 1..(NumLevels - start_level) |->
                   LevelInputs(start_level + k - 1,
                               LevelFiles(start_level + k - 1))]
  IN  IF nonempty = {} THEN [c |-> nullptr, manual_conflict |-> FALSE]
      ELSE IF start_level = 0 /\ level0_compactions_in_progress_ # {}
      THEN [c |-> nullptr, manual_conflict |-> TRUE]
      ELSE IF \E k \in 1..Len(inputs) : AreFilesInCompaction(inputs[k].files)
      THEN [c |-> nullptr, manual_conflict |-> TRUE]
      ELSE IF FilesRangeOverlapWithCompaction(inputs, output_level)
      THEN [c |-> nullptr, manual_conflict |-> TRUE]
      ELSE [c |-> [CompactionParams EXCEPT
                     !.inputs = inputs,
                     !.output_level = output_level,
                     !.output_path_id = output_path_id,
                     !.max_subcompactions =
                        IF enable_lazy_compaction THEN 1 ELSE max_subcompactions,
                     !.manual_compaction = TRUE,
                     !.compaction_purpose =
                        IF enable_lazy_compaction THEN kMapSst ELSE kEssenceSst],
            manual_conflict |-> FALSE]

(***************************************************************************)
(* The picker of one column family, its callers and the executor           *)
(***************************************************************************)
\* the number of plans and of flushes that a behaviour is followed for
MaxPlans == 4

MaxFlush == 1

\* what the last call was and what it returned; path tells where a
\* CompactRange call went ("no_hit", "all_levels" or "single_level"),
\* input_level is its level after the redirection of lines 563-568, and
\* has_focus whether it was given a set of files that is not empty
Call(op, c) ==
  [op |-> op, c |-> c, manual_conflict |-> FALSE, crashed |-> FALSE,
   seqno_assertion |-> TRUE, path |-> "none",
   input_level |-> kCompactAllLevels, has_focus |-> FALSE,
   needs_compaction |-> FALSE]

\* no call yet
NoCall == Call("none", nullptr)

\* the Compaction constructor marks the input files as being compacted
MarkBeingCompacted(c) ==
  [l \in 1..Len(levels) |->
     [i \in 1..Len(levels[l]) |->
        IF levels[l][i].num \in FileNums(InputFiles(c.inputs))
        THEN [levels[l][i] EXCEPT !.being_compacted = TRUE]
        ELSE levels[l][i]]]

\* CompactionPicker::RegisterCompaction
RegisterCompaction(c) ==
  /\ compactions_in_progress_' = compactions_in_progress_ \cup {c}
  /\ level0_compactions_in_progress_' =
       IF StartLevel(c) = 0
       THEN level0_compactions_in_progress_ \cup {c}
       ELSE level0_compactions_in_progress_

\* what the table cache and the map-element iterator may deliver to a call
PropsChoices ==
  IF opts.table_cache /\ HasSpaceAmplification THEN BOOLEAN ELSE {TRUE}

ScanChoices ==
  IF opts.table_cache /\ HasSpaceAmplification
  THEN MapScanOutcomes ELSE {"nothing"}

\* a call that crashed took the process with it: nothing runs after it
Alive == ~last.crashed

\* a return that leaves out the RegisterCompaction of line 512
ReturnUnregistered(c) ==
  /\ levels' = MarkBeingCompacted(c)
  /\ returned' = returned \cup {c}
  /\ last' = Call("PickCompaction", c)
  /\ ctr' = [ctr EXCEPT !.plans = @ + 1]
  /\ UNCHANGED <<opts, depend_files, compactions_in_progress_,
                 level0_compactions_in_progress_, fx>>

\* lines 447-517 for the plan c that the strategies came up with
ReturnCompaction(c) ==
  /\ levels' = MarkBeingCompacted(c)
  /\ RegisterCompaction(c)
  /\ returned' = returned \cup {c}
  /\ last' = [Call("PickCompaction", c)
                EXCEPT !.seqno_assertion = SeqnoAssertionHolds(c)]
  /\ ctr' = [ctr EXCEPT !.plans = @ + 1]
  /\ UNCHANGED <<opts, depend_files, fx>>

\* the call ends without a plan
ReturnNoCompaction(crashed) ==
  /\ last' = [Call("PickCompaction", nullptr) EXCEPT !.crashed = crashed]
  /\ UNCHANGED <<opts, levels, depend_files, compactions_in_progress_,
                 level0_compactions_in_progress_, returned, ctr, fx>>

\* r is what the strategies came up with.  A level written past the end
\* of the inputs vector is undefined behaviour: the process dies, or the
\* write lands in foreign memory and the plan goes on without that level.
PickCompactionWith(r) ==
  \E dies \in IF r.out_of_bounds THEN BOOLEAN ELSE {FALSE} :
    IF r.c = nullptr THEN ReturnNoCompaction(FALSE)
    ELSE IF dies THEN ReturnNoCompaction(TRUE)
    ELSE ReturnCompaction(
           [Compaction(r.c, ctr.plans) EXCEPT
              !.is_trivial_move = TrivialMoveFlag(Compaction(r.c, ctr.plans))])

\* PickCompaction (lines 287-518)
PickCompaction ==
  /\ Alive
  /\ ctr.plans < MaxPlans
  /\ \E marked \in MarkedFileChoices, props_ok \in PropsChoices,
        scan \in ScanChoices :
       PickCompactionWith(PickStrategies(marked, props_ok, scan))

\* the arguments a caller may hand to CompactRange: the level, the files
\* under focus, begin, end, and whether the map-element iterator opens.
\* All levels are asked for when there is more than one (line 575), then
\* with the full range (lines 583-584); one level is asked for under lazy
\* compaction, and a range or a failing iterator is tried with a focus on
\* a file that the level holds or refers to.
Focus(nums) == {[files |-> {n}] : n \in nums}

CompactRangeCalls ==
  LET full == [begin |-> nullptr, end |-> nullptr, iter_ok |-> TRUE]
      ranges == {full, [full EXCEPT !.iter_ok = FALSE],
                 [full EXCEPT !.begin = IKey(2, 0)],
                 [full EXCEPT !.end = IKey(2, 0)]}
      known == FileNums(AllFiles) \cup DOMAIN depend_files
      held(level) == FileNums(LevelFiles(level)) \cup
                     UNION {Range(f.sst_depend) : f \in Range(LevelFiles(level))}
  IN  (IF NumLevels > 1
       THEN {[level |-> kCompactAllLevels, files_being_compact |-> focus,
              range |-> full] :
               focus \in {nullptr, [files |-> {}]} \cup Focus(known)}
       ELSE {}) \cup
      (IF opts.enable_lazy_compaction
       THEN UNION {
              {[level |-> level, files_being_compact |-> focus, range |-> full] :
                 focus \in {nullptr, [files |-> {}], [files |-> {0}]}} \cup
              {[level |-> level, files_being_compact |-> focus, range |-> range] :
                 focus \in Focus(held(level)), range \in ranges} :
              level \in 0..(NumLevels - 1)}
       ELSE {})

\* the last call came back without a plan (a manual compaction, a pick or
\* the NeedsCompaction gate): it changed nothing, so a manual compaction
\* asked for now ends as it would have ended before that call, and the
\* caller waits for something else to happen before it asks
CameBackEmpty ==
  /\ last.op \in {"CompactRange", "PickCompaction", "NeedsCompaction"}
  /\ last.c = nullptr

\* CompactRange (lines 520-661) with enable_lazy_compaction as the column
\* family has it.  hit_sst dereferences files_being_compact unchecked: with
\* a null set and a file to look at the process dies.
CompactRange ==
  /\ Alive
  /\ ~CameBackEmpty
  /\ ctr.plans < MaxPlans
  /\ \E call_args \in CompactRangeCalls :
       LET level == call_args.level
           files_being_compact == call_args.files_being_compact
           range == call_args.range
           lazy == opts.enable_lazy_compaction
           scan_hits == level = kCompactAllLevels /\ lazy
           null_deref == /\ scan_hits
                         /\ files_being_compact = nullptr
                         /\ AllFiles # <<>>
           hits == HitLevels(files_being_compact)
           hit_count == IF files_being_compact = nullptr THEN 0
                        ELSE Cardinality(hits)
           input_level ==
             IF scan_hits /\ hit_count = 1
             THEN CHOOSE l \in hits : TRUE ELSE level
           output_level == IF opts.allow_ingest_behind
                           THEN NumLevels - 2 ELSE NumLevels - 1
           r == IF input_level = kCompactAllLevels
                THEN CompactAllLevels(output_level, 0, opts.max_subcompactions,
                                      lazy)
                ELSE PickRangeCompaction(input_level, range.begin, range.end,
                                         files_being_compact, range.iter_ok)
           c == Compaction(r.c, ctr.plans)
           call == [Call("CompactRange", nullptr)
                      EXCEPT !.input_level = input_level,
                             !.path = IF input_level = kCompactAllLevels
                                      THEN "all_levels" ELSE "single_level",
                             !.has_focus =
                                /\ files_being_compact # nullptr
                                /\ files_being_compact.files # {}]
           out == IF null_deref
                  THEN [call EXCEPT !.crashed = TRUE, !.path = "no_hit"]
                  ELSE IF scan_hits /\ hit_count = 0
                  THEN [call EXCEPT !.path = "no_hit"]
                  ELSE IF r.c = nullptr
                  THEN [call EXCEPT !.manual_conflict = r.manual_conflict]
                  ELSE [call EXCEPT !.c = c]
       IN  /\ last' = out
           /\ IF out.c = nullptr
              THEN UNCHANGED <<levels, compactions_in_progress_,
                               level0_compactions_in_progress_, returned, ctr>>
              ELSE /\ levels' = MarkBeingCompacted(c)
                   /\ IF input_level = kCompactAllLevels
                      THEN RegisterCompaction(c)
                      ELSE UNCHANGED <<compactions_in_progress_,
                                       level0_compactions_in_progress_>>
                   /\ returned' = returned \cup {c}
                   /\ ctr' = [ctr EXCEPT !.plans = @ + 1]
           /\ UNCHANGED <<opts, depend_files, fx>>

\* the files that the live files and `deps` reach through sst_depend
RECURSIVE Reachable(_, _)
Reachable(deps, nums) ==
  LET more == nums \cup
                UNION {Range(deps[n].sst_depend) : n \in nums \cap DOMAIN deps}
  IN  IF more = nums THEN nums ELSE Reachable(deps, more)

\* `files` with f put where the level keeps it: level 0 is ordered from
\* the newest file to the oldest, a deeper level by smallest key
InsertFile(level, files, f) ==
  LET before(g) == IF level = 0 THEN g.largest_seqno > f.largest_seqno
                   ELSE IcmpCompare(g.smallest, f.smallest) < 0
  IN  SelectSeq(files, before) \o <<f>> \o
      SelectSeq(files, LAMBDA g : ~before(g))

RECURSIVE InsertFiles(_, _, _)
InsertFiles(level, files, new) ==
  IF new = <<>> THEN files
  ELSE InsertFiles(level, InsertFile(level, files, new[1]), Tail(new))

\* the one file a finished compaction writes; a map or link file refers to
\* the inputs and is read-amplified where two of them share a user key
OutputFile(c, num) ==
  LET files == InputFiles(c.inputs)
      q == GetSmallestLargestSeqno(files)
      links == c.compaction_purpose # kEssenceSst
      size == IF links THEN 1
              ELSE SumSeq([i \in 1..Len(files) |-> GetFilesSize(files[i], -1)])
  IN  [num |-> num, path_id |-> c.output_path_id,
       smallest |-> IKey(c.smallest_user_key, q.largest_seqno),
       largest |-> IKey(c.largest_user_key, q.smallest_seqno),
       smallest_seqno |-> q.smallest_seqno,
       largest_seqno |-> q.largest_seqno,
       file_size |-> size, compensated_file_size |-> size,
       being_compacted |-> FALSE, marked_for_compaction |-> FALSE,
       sst_purpose |-> c.compaction_purpose,
       sst_depend |-> IF links THEN [i \in 1..Len(files) |-> files[i].num]
                      ELSE <<>>,
       read_amp |-> IF /\ links
                       /\ \E i, j \in 1..Len(files) :
                            /\ i < j
                            /\ files[i].smallest.u <= files[j].largest.u
                            /\ files[j].smallest.u <= files[i].largest.u
                    THEN 2 ELSE 1,
       elems |-> <<>>]

\* the executor is done with plan c: the plan leaves the in-flight sets,
\* its inputs leave their levels, and the output level receives the moved
\* inputs of a trivial move or else the one output file
Complete(c) ==
  LET nums == FileNums(InputFiles(c.inputs))
      gone == [l \in 1..Len(levels) |->
                 SelectSeq(levels[l], LAMBDA f : f.num \notin nums)]
      inputs == SelectSeq(AllFiles, LAMBDA f : f.num \in nums)
      new == IF c.is_trivial_move
             THEN [i \in 1..Len(inputs) |->
                     [inputs[i] EXCEPT !.being_compacted = FALSE]]
             ELSE <<OutputFile(c, ctr.file)>>
      after == [gone EXCEPT ![c.output_level + 1] =
                  InsertFiles(c.output_level, @, new)]
      deps == [n \in DOMAIN depend_files \cup
                     (IF c.compaction_purpose # kEssenceSst /\ ~c.is_trivial_move
                      THEN {inputs[i].num : i \in 1..Len(inputs)} ELSE {}) |->
                 IF n \in DOMAIN depend_files THEN depend_files[n]
                 ELSE CHOOSE f \in Range(inputs) : f.num = n]
      live == Reachable(deps,
                UNION {Range(f.sst_depend) : f \in Range(Flatten(after))})
  IN  /\ c \in returned
      /\ returned' = returned \ {c}
      /\ compactions_in_progress_' = compactions_in_progress_ \ {c}
      /\ level0_compactions_in_progress_' =
           level0_compactions_in_progress_ \ {c}
      /\ levels' = after
      /\ depend_files' = [n \in DOMAIN deps \cap live |-> deps[n]]
      /\ ctr' = [ctr EXCEPT !.file = @ + 1]
      /\ last' = Call("Complete", nullptr)
      /\ UNCHANGED <<opts, fx>>

CompleteCompaction == Alive /\ \E c \in returned : Complete(c)

\* a caller asks whether the column family needs a compaction
NeedsCompactionCall ==
  /\ Alive
  /\ last' = [Call("NeedsCompaction", nullptr)
                EXCEPT !.needs_compaction = NeedsCompaction]
  /\ UNCHANGED <<opts, levels, depend_files, compactions_in_progress_,
                 level0_compactions_in_progress_, returned, ctr, fx>>

\* the files a flush may add: [lo, hi, size, marked]
FlushChoices ==
  {[lo |-> 1, hi |-> 2, size |-> 10, marked |-> FALSE],
   [lo |-> 3, hi |-> 4, size |-> 10, marked |-> FALSE],
   [lo |-> 1, hi |-> 4, size |-> 1, marked |-> TRUE]}

\* a memtable flush adds the newest file to level 0
Flush ==
  /\ Alive
  /\ ctr.flushes < MaxFlush
  /\ \E w \in FlushChoices :
       levels' = [levels EXCEPT ![1] =
                    <<File(ctr.file, w.lo, w.hi, ctr.seq, ctr.seq, w.size,
                           w.marked)>> \o @]
  /\ ctr' = [ctr EXCEPT !.file = @ + 1, !.seq = @ + 1, !.flushes = @ + 1]
  /\ last' = Call("Flush", nullptr)
  /\ UNCHANGED <<opts, depend_files, compactions_in_progress_,
                 level0_compactions_in_progress_, returned, fx>>

\* one flushed file in a three-level tree
SeedFlushed ==
  [opts |-> Options,
   levels |-> <<<<File(10, 1, 2, 10, 10, 10, FALSE)>>, <<>>, <<>>>>]

\* a single-level tree whose newest file is marked
SeedSingleLevel ==
  [opts |-> [Options EXCEPT !.num_levels = 1],
   levels |-> <<<<File(12, 1, 4, 12, 12, 1, TRUE),
                  File(11, 1, 2, 11, 11, 10, FALSE),
                  File(10, 3, 4, 10, 10, 10, FALSE)>>>>]

\* a single level whose only file is marked
SeedSingleMarked ==
  [opts |-> [Options EXCEPT !.num_levels = 1],
   levels |-> <<<<File(10, 1, 4, 10, 10, 10, TRUE)>>>>]

\* two marked files that one compaction wrote to level 1, above older data
SeedMarked ==
  [opts |-> [Options EXCEPT !.level0_file_num_compaction_trigger = 4],
   levels |-> <<<<>>,
                <<File(11, 1, 1, 10, 13, 1, TRUE),
                  File(12, 2, 3, 10, 13, 1, TRUE)>>,
                <<File(10, 1, 4, 1, 5, 10, FALSE)>>>>]

\* two flushed files with disjoint keys, trivial moves allowed
SeedTrivialMove ==
  [opts |-> [Options EXCEPT !.allow_trivial_move = TRUE],
   levels |-> <<<<File(11, 3, 4, 11, 11, 10, FALSE),
                  File(10, 1, 2, 10, 10, 10, FALSE)>>, <<>>, <<>>>>]

\* lazy compaction with a table cache: marked files above two bottom files
SeedLazy ==
  [opts |-> [Options EXCEPT !.level0_file_num_compaction_trigger = 4,
                            !.enable_lazy_compaction = TRUE,
                            !.table_cache = TRUE],
   levels |-> <<<<>>,
                <<File(12, 1, 1, 10, 13, 1, TRUE),
                  File(13, 2, 3, 10, 13, 1, TRUE)>>,
                <<File(10, 1, 1, 1, 5, 10, FALSE),
                  File(11, 4, 4, 1, 5, 10, FALSE)>>>>]

\* lazy compaction with trivial moves: two flushed files above older data
SeedLazyMove ==
  [opts |-> [Options EXCEPT !.enable_lazy_compaction = TRUE,
                            !.table_cache = TRUE,
                            !.allow_trivial_move = TRUE],
   levels |-> <<<<File(12, 3, 4, 12, 12, 10, FALSE),
                  File(11, 1, 2, 11, 11, 10, FALSE)>>,
                <<>>,
                <<File(10, 1, 4, 1, 5, 10, FALSE)>>>>]

\* lazy compaction without trivial moves: two small flushed files above
\* older data in the bottom level, level 1 empty
SeedLazyFlushed ==
  [opts |-> [Options EXCEPT !.enable_lazy_compaction = TRUE,
                            !.table_cache = TRUE],
   levels |-> <<<<File(12, 3, 4, 12, 12, 1, FALSE),
                  File(11, 1, 2, 11, 11, 1, FALSE)>>,
                <<>>,
                <<File(10, 1, 4, 1, 5, 10, FALSE)>>>>]

\* lazy compaction after a DeleteTriggered plan over files 12 and 10 left
\* the map file 20 in the bottom level beside file 11, and two flushes
SeedLazyMap ==
  [opts |-> [Options EXCEPT !.enable_lazy_compaction = TRUE,
                            !.table_cache = TRUE],
   levels |-> <<<<File(14, 3, 4, 15, 15, 1, FALSE),
                  File(13, 1, 2, 14, 14, 1, FALSE)>>,
                <<>>,
                <<[File(20, 1, 1, 1, 13, 1, FALSE)
                     EXCEPT !.sst_purpose = kMapSst,
                            !.sst_depend = <<12, 10>>,
                            !.read_amp = 2],
                  File(11, 4, 4, 1, 5, 10, FALSE)>>>>,
   depend_files |-> (10 :> File(10, 1, 1, 1, 5, 10, FALSE)) @@
                    (12 :> File(12, 1, 1, 10, 13, 1, TRUE))]

\* a tree without a file
SeedEmpty == [opts |-> Options, levels |-> <<<<>>, <<>>, <<>>>>]

\* three flushed files of very different sizes: a byte, 50 MB and 2 GB
SeedSkewed ==
  [opts |-> Options,
   levels |-> <<<<File(12, 5, 6, 12, 12, 1, FALSE),
                  File(11, 3, 4, 11, 11, 50000000, FALSE),
                  File(10, 1, 2, 10, 10, 2000000000, FALSE)>>, <<>>, <<>>>>]

Seeds == {SeedEmpty, SeedSkewed, SeedFlushed, SeedSingleLevel, SeedSingleMarked,
          SeedMarked,
          SeedTrivialMove, SeedLazy, SeedLazyMove, SeedLazyFlushed}

\* file numbers and sequence numbers above those of the seeds
FirstFileNumber == 40

FirstSeqno == 20

\* the state of a column family whose tree is that of the seed, with
\* nothing in flight
InitFrom(seed) ==
  /\ opts = seed.opts
  /\ levels = seed.levels
  /\ depend_files = IF "depend_files" \in DOMAIN seed
                    THEN seed.depend_files ELSE <<>>
  /\ compactions_in_progress_ = {}
  /\ level0_compactions_in_progress_ = {}
  /\ returned = {}
  /\ last = NoCall
  /\ ctr = [file |-> FirstFileNumber, seq |-> FirstSeqno, plans |-> 0,
            flushes |-> 0]
  /\ fx = NoCall

Init == \E seed \in Seeds : InitFrom(seed)

Next ==
  \/ PickCompaction
  \/ CompactRange
  \/ CompleteCompaction
  \/ NeedsCompactionCall
  \/ Flush

Spec == Init /\ [][Next]_vars

\* the same calls on the tree that holds a map file
MapInit == InitFrom(SeedLazyMap)

\* a marked L0 file over an empty level 1 and a bottom level that
\* allow_ingest_behind reserves
SeedIngestBehind ==
  [opts |-> [Options EXCEPT !.level0_file_num_compaction_trigger = 4,
                            !.allow_ingest_behind = TRUE],
   levels |-> <<<<File(12, 1, 2, 12, 12, 1, TRUE),
                  File(11, 2, 3, 11, 11, 1, FALSE)>>,
                <<>>,
                <<File(10, 1, 4, 1, 5, 10, FALSE)>>>>]

\* the trees that hold files marked for compaction
MarkedInit ==
  \E seed \in {SeedMarked, SeedLazy, SeedIngestBehind} : InitFrom(seed)

SpecMarked == MarkedInit /\ [][Next]_vars

\* seven levels under lazy compaction with trivial moves: one flushed file,
\* levels 1 to 5 empty, older data in level 6
SeedSevenLevels ==
  [opts |-> [Options EXCEPT !.num_levels = 7,
                            !.enable_lazy_compaction = TRUE,
                            !.table_cache = TRUE,
                            !.allow_trivial_move = TRUE],
   levels |-> <<<<File(11, 1, 2, 11, 11, 10, FALSE)>>,
                <<>>, <<>>, <<>>, <<>>, <<>>,
                <<File(10, 1, 4, 1, 5, 10, FALSE)>>>>]

\* the trees with empty levels: trivial moves without lazy compaction, with
\* it, lazy compaction without trivial moves, and the seven levels
MoveInit ==
  \E seed \in {SeedTrivialMove, SeedLazyMove, SeedLazyFlushed,
               SeedSevenLevels} : InitFrom(seed)

SpecMove == MoveInit /\ [][Next]_vars

SpecMap == MapInit /\ [][Next]_vars

\* a marked L0 file over an empty level 1 and the map file 20 alone at
\* the bottom
SeedMapMarked ==
  [opts |-> [Options EXCEPT !.enable_lazy_compaction = TRUE,
                            !.table_cache = TRUE],
   levels |-> <<<<File(13, 1, 2, 14, 14, 1, TRUE)>>,
                <<>>,
                <<[File(20, 1, 4, 1, 13, 1, FALSE)
                     EXCEPT !.sst_purpose = kMapSst,
                            !.sst_depend = <<12, 10>>,
                            !.read_amp = 2]>>>>,
   depend_files |-> (10 :> File(10, 1, 4, 1, 5, 10, FALSE)) @@
                    (12 :> File(12, 1, 4, 10, 13, 1, FALSE))]

\* trivial moves allowed: a flushed file, an empty level 1, two files
\* that one compaction wrote to level 2, the second of them marked, and
\* older data at the bottom
SeedMovePartial ==
  [opts |-> [Options EXCEPT !.num_levels = 4,
                            !.level0_file_num_compaction_trigger = 4,
                            !.allow_trivial_move = TRUE],
   levels |-> <<<<File(14, 1, 4, 14, 14, 1, FALSE)>>,
                <<>>,
                <<File(11, 1, 1, 10, 13, 1, FALSE),
                  File(12, 2, 3, 10, 13, 1, TRUE)>>,
                <<File(10, 1, 4, 1, 5, 10, FALSE)>>>>]

RunsInit == InitFrom(SeedMovePartial)

SpecRuns == RunsInit /\ [][Next]_vars

ScanFailInit == InitFrom(SeedMapMarked)

SpecScanFail == ScanFailInit /\ [][Next]_vars

(***************************************************************************)
(* Properties of the picker                                                *)
(***************************************************************************)
\* the numbers of the input files of a plan
PlanFiles(c) == FileNums(InputFiles(c.inputs))

\* a PickCompaction call has just returned a plan
PickReturned == last.op = "PickCompaction" /\ last.c # nullptr

\* a CompactRange call has just returned a plan
RangeReturned == last.op = "CompactRange" /\ last.c # nullptr

\* C1: no file is an input of two different plans that were returned and
\* are not yet completed
NoFileInTwoPlans ==
  \A p, q \in returned : p # q => PlanFiles(p) \cap PlanFiles(q) = {}

\* C2 (P1): no input file of a plan that PickCompaction returns was being
\* compacted when the call was made
NoDoublePick ==
  PickReturned =>
    \A f \in Range(InputFiles(last.c.inputs)) : ~f.being_compacted

\* C3 (P2): the key range of a plan that PickCompaction or CompactRange
\* returns does not meet the key range of another in-flight plan with the
\* same output level
NoOutputRangeConflict ==
  PickReturned \/ RangeReturned =>
    \A q \in returned \ {last.c} :
      q.output_level = last.c.output_level =>
        \/ q.largest_user_key < last.c.smallest_user_key
        \/ last.c.largest_user_key < q.smallest_user_key

\* C4: a plan that PickCompaction returns is in compactions_in_progress_
\* when the call returns, and a call that returns no plan leaves
\* compactions_in_progress_ as it was
PickRegisters ==
  /\ [](PickReturned => last.c \in compactions_in_progress_)
  /\ [][last'.op = "PickCompaction" /\ last'.c = nullptr =>
          compactions_in_progress_' = compactions_in_progress_]_vars

PickRegistersWitness ==
  /\ PickReturned
  /\ last.c \in compactions_in_progress_
  /\ Cardinality(compactions_in_progress_) = 2

\* C5: a plan that CompactRange returns, on the all-levels path or on the
\* single-level lazy path, is in compactions_in_progress_ when the call
\* returns
RangeRegisters == RangeReturned => last.c \in compactions_in_progress_

\* the first level that holds a file, or NumLevels
FirstNonEmptyLevel ==
  LET nonempty == {l \in 0..(NumLevels - 1) : levels[l + 1] # <<>>}
  IN  IF nonempty = {} THEN NumLevels
      ELSE CHOOSE l \in nonempty : \A o \in nonempty : l <= o

\* the all-levels path has a conflict to report: level 0 is the first level
\* with files and a level-0 compaction is in flight, or a file is being
\* compacted, or the key range of the files meets that of an in-flight plan
\* that writes to the last level
AllLevelsConflict ==
  /\ AllFiles # <<>>
  /\ \/ FirstNonEmptyLevel = 0 /\ level0_compactions_in_progress_ # {}
     \/ \E f \in Range(AllFiles) : f.being_compacted
     \/ \E q \in compactions_in_progress_ :
          /\ q.output_level = NumLevels - 1
          /\ \E f, g \in Range(AllFiles) :
               f.smallest.u <= q.largest_user_key /\
               g.largest.u >= q.smallest_user_key

\* a file of the level that the call is about is being compacted
LevelConflict(level) ==
  \E f \in Range(levels[level + 1]) : f.being_compacted

\* the call that ends with this step reports a conflict: manual_conflict
\* is set, no plan is returned, compactions_in_progress_ is as it was
ConflictReported ==
  /\ last'.manual_conflict
  /\ last'.c = nullptr
  /\ compactions_in_progress_' = compactions_in_progress_

\* C6 as stated: CompactRange reports a conflict on the all-levels path
\* whenever there is one, and on the single-level lazy path whenever a file
\* of the level is being compacted
ManualConflictAlways ==
  [][/\ last'.op = "CompactRange"
     /\ \/ last'.path = "all_levels" /\ AllLevelsConflict
        \/ last'.path = "single_level" /\ LevelConflict(last'.input_level)
     => ConflictReported]_vars

\* C6, amended: on the single-level lazy path the conflict is reported when
\* the call was given a set of files that is not empty; without one the
\* call returns no plan and does not set manual_conflict
ManualConflict ==
  [][/\ last'.op = "CompactRange"
     /\ \/ last'.path = "all_levels" /\ AllLevelsConflict
        \/ /\ last'.path = "single_level"
           /\ last'.has_focus
           /\ LevelConflict(last'.input_level)
     => ConflictReported]_vars

ManualConflictWitness ==
  /\ last.op = "CompactRange"
  /\ last.path = "single_level"
  /\ last.has_focus
  /\ last.manual_conflict
  /\ last.c = nullptr

\* the input files of plan c are pairwise disjoint in internal-key order
PairwiseDisjoint(c) ==
  \A f, g \in Range(InputFiles(c.inputs)) :
    f.num # g.num =>
      \/ IcmpCompare(f.largest, g.smallest) < 0
      \/ IcmpCompare(g.largest, f.smallest) < 0

SeqnoMonotone == PickReturned => last.seqno_assertion

\* C12: NeedsCompaction is true exactly when the level-0 score is at least
\* 1, or the version lists a file marked for compaction, or it reports
\* space amplification; the call changes nothing of the picker or of the
\* version, so asking again gives the same answer
NeedsCompactionExact ==
  /\ [](last.op = "NeedsCompaction" =>
          (last.needs_compaction <=>
             \/ CompactionScore(0) >= Scale
             \/ FilesMarkedForCompaction # {}
             \/ \E f \in Range(AllFiles) :
                  f.sst_purpose # kEssenceSst /\ f.read_amp > 1))
  /\ [][last'.op = "NeedsCompaction" =>
          UNCHANGED <<opts, levels, depend_files, compactions_in_progress_,
                      level0_compactions_in_progress_, returned>>]_vars

\* the gate is open although the score is below 1 and there is an
\* unfinished plan that the call left alone
NeedsCompactionExactWitness ==
  /\ last.op = "NeedsCompaction"
  /\ last.needs_compaction
  /\ CompactionScore(0) < Scale
  /\ returned # {}

\* the number of sorted runs: the files of level 0 and the levels below
\* that hold a file
NumSortedRuns ==
  Len(levels[1]) +
  Cardinality({l \in 2..Len(levels) : levels[l] # <<>>})

\* there is nothing for PickCompaction to do (lines 295-299)
NothingToDo ==
  \/ NumSortedRuns = 0
  \/ /\ FilesMarkedForCompaction = {}
     /\ ~HasSpaceAmplification
     /\ NumSortedRuns < opts.level0_file_num_compaction_trigger

\* C13: with no sorted runs, or with no marked file, no space amplification
\* and fewer runs than the trigger, PickCompaction returns no plan and
\* registers nothing; with every level empty NeedsCompaction is false
NothingToDoNoPlan ==
  /\ [][last'.op = "PickCompaction" /\ NothingToDo =>
          /\ last'.c = nullptr
          /\ UNCHANGED <<levels, compactions_in_progress_,
                         level0_compactions_in_progress_, returned>>]_vars
  /\ [](last.op = "NeedsCompaction" /\ AllFiles = <<>> =>
          ~last.needs_compaction)

\* a call that found runs, but fewer than the trigger, and nothing else
NothingToDoNoPlanWitness ==
  /\ last.op = "PickCompaction"
  /\ last.c = nullptr
  /\ NothingToDo
  /\ NumSortedRuns >= 2

\* the strategies of lines 380-431 are consulted: no lazy compaction, and
\* space amplification or as many runs as the trigger
EagerConsulted ==
  /\ ~opts.enable_lazy_compaction
  /\ NumSortedRuns > 0
  /\ \/ HasSpaceAmplification
     \/ NumSortedRuns >= opts.level0_file_num_compaction_trigger

\* the runs from the 1-based index first on that are not being compacted,
\* counted up to the first one that is
RECURSIVE FreeStretch(_, _)
FreeStretch(sorted_runs, first) ==
  IF first > Len(sorted_runs) \/ sorted_runs[first].being_compacted THEN 0
  ELSE 1 + FreeStretch(sorted_runs, first + 1)

\* the window of a legacy RatioReduce whose ratio is infinite: no size ever
\* ends it, only the cap, a run being compacted or the last run do
UnboundedRatioWindow(sorted_runs, cap) ==
  LET width(first) ==
        LET fit == {k \in 0..FreeStretch(sorted_runs, first) :
                      ~LtU64(cap, U64(k))}
        IN  CHOOSE k \in fit : \A o \in fit : o <= k
      starts == {first \in 1..Len(sorted_runs) :
                   width(first) >= Max2(opts.min_merge_width, 2)}
  IN  IF starts = {} THEN [start_index |-> 0, candidate_count |-> 0]
      ELSE LET first == CHOOSE f \in starts : \A o \in starts : f <= o
           IN  [start_index |-> first - 1, candidate_count |-> width(first)]

\* the files of the plan that window stands for
UnboundedRatioFiles(sorted_runs, cap) ==
  LET w == UnboundedRatioWindow(sorted_runs, cap)
  IN  FileNums(InputFiles(RunInputs(sorted_runs, w.start_index,
                                    w.start_index + w.candidate_count,
                                    NumLevels)))

\* the precedence alone: no plan carries the reason of a later strategy
\* where an earlier one accepts
EagerOrder(sorted_runs, c) ==
  LET amp == PickCompactionToReduceSizeAmp(sorted_runs)
      by_ratio == PickCompactionToReduceSortedRunsOld(
                    U64(opts.size_ratio), UINT_MAX, sorted_runs)
      num_sr_not_compacted ==
        Cardinality({i \in 1..Len(sorted_runs) :
                       ~sorted_runs[i].being_compacted})
      reason == IF c = nullptr THEN "none" ELSE c.compaction_reason
  IN  /\ amp # nullptr => reason = "kUniversalSizeAmplification"
      /\ amp = nullptr /\ by_ratio # nullptr => reason = "kUniversalSizeRatio"
      /\ reason = "kUniversalSizeAmplification" => amp # nullptr
      /\ reason = "kUniversalSizeRatio" => amp = nullptr /\ by_ratio # nullptr
      /\ reason = "kUniversalSortedRunNum" =>
           /\ amp = nullptr
           /\ by_ratio = nullptr
           /\ num_sr_not_compacted > opts.level0_file_num_compaction_trigger

\* the third strategy as stated: the window of an infinite ratio under the
\* cap num_non_compacting - trigger + 1 and max_merge_width
EagerRunNumAsStated(sorted_runs, c) ==
  LET num_sr_not_compacted ==
        Cardinality({i \in 1..Len(sorted_runs) :
                       ~sorted_runs[i].being_compacted})
      num_files == num_sr_not_compacted -
                   opts.level0_file_num_compaction_trigger + 1
      cap == IF LtU64(opts.max_merge_width, U64(num_files))
             THEN opts.max_merge_width ELSE U64(num_files)
  IN  c # nullptr /\ c.compaction_reason = "kUniversalSortedRunNum" =>
        FileNums(InputFiles(c.inputs)) = UnboundedRatioFiles(sorted_runs, cap)

\* C14: without lazy compaction, when space amplification is reported or
\* the runs are as many as the trigger, PickCompaction takes the plan of
\* SizeAmp; if SizeAmp declines, that of the legacy RatioReduce with ratio
\* size_ratio and no cap (kUniversalSizeRatio); if that declines and more
\* runs than the trigger are not being compacted, that of the legacy
\* RatioReduce with an infinite ratio and cap num_non_compacting - trigger
\* + 1 (kUniversalSortedRunNum); never a plan of a later strategy where an
\* earlier one accepts
EagerPrecedence ==
  [][last'.op = "PickCompaction" /\ EagerConsulted =>
       /\ EagerOrder(CalculateSortedRuns, last'.c)
       /\ EagerRunNumAsStated(CalculateSortedRuns, last'.c)]_vars

\* the runs before the bottommost one, as 1-based indices
UpperRuns(sorted_runs) == 1..(Len(sorted_runs) - 1)

\* the candidate runs: from the first run not being compacted to the run
\* before the bottommost one
CandidateRuns(sorted_runs) ==
  {i \in UpperRuns(sorted_runs) :
     \E f \in 1..i : ~sorted_runs[f].being_compacted}

\* the stated condition of SizeAmp: the bottommost run and the candidates
\* are free, and the compensated sizes of all runs but the bottommost come
\* to max_size_amplification_percent of the size of the bottommost
SizeAmpAsStated(sorted_runs) ==
  LET n == Len(sorted_runs)
      candidate_size ==
        SumSeq([i \in UpperRuns(sorted_runs) |->
                  sorted_runs[i].compensated_file_size])
      earliest_file_size == sorted_runs[n].size
  IN  /\ ~sorted_runs[n].being_compacted
      /\ CandidateRuns(sorted_runs) # {}
      /\ \A i \in CandidateRuns(sorted_runs) : ~sorted_runs[i].being_compacted
      /\ ~LtU64(MulU64(U64(candidate_size), U64(100)),
                MulU64(U64(opts.max_size_amplification_percent),
                       U64(earliest_file_size)))

\* C18: with allow_trivial_move disabled, in every state that PickCompaction
\* calls, CompactRange calls and completions lead to, the files of each
\* level >= 1 share one being_compacted value: the assertion of line 270
\* never fails
LevelFlagsAgree ==
  ~opts.allow_trivial_move =>
    \A level \in 1..(NumLevels - 1) :
      \A i, j \in 1..NumLevelFiles(level) :
        LevelFiles(level)[i].being_compacted =
          LevelFiles(level)[j].being_compacted

\* the files of a sorted run
RunFileNums(sr) ==
  IF sr.level = 0 THEN {sr.file.num} ELSE FileNums(LevelFiles(sr.level))

\* a plan of the legacy or of the grouping RatioReduce
RatioReducePlan(c) ==
  /\ c # nullptr
  /\ c.compaction_reason \in {"kUniversalSizeRatio", "kUniversalSortedRunNum"}

\* the output level that is stated for a window whose last run is run
\* `last_picked` (1-based)
StatedOutputLevel(sorted_runs, last_picked) ==
  IF last_picked = Len(sorted_runs)
  THEN IF opts.allow_ingest_behind THEN NumLevels - 2 ELSE NumLevels - 1
  ELSE IF sorted_runs[last_picked + 1].level = 0 THEN 0
  ELSE sorted_runs[last_picked + 1].level - 1

\* the plan c, picked among sorted_runs, has the stated output level: the
\* window ends with the last run that has a file in the plan
OutputLevelAsStated(sorted_runs, c) ==
  LET picked == {i \in 1..Len(sorted_runs) :
                   RunFileNums(sorted_runs[i]) \cap PlanFiles(c) # {}}
  IN  /\ picked # {}
      /\ c.output_level =
           StatedOutputLevel(sorted_runs,
                             CHOOSE i \in picked : \A o \in picked : o <= i)

MapPlansInFlight == {c \in returned : c.compaction_purpose = kMapSst}

\* C20: under lazy compaction, while a plan with purpose Map is in flight,
\* PickCompaction returns no plan with reason kTrivialMoveLevel or
\* kUniversalSortedRunNum, and at most one run reduction with purpose Map
\* is in flight at a time
OneMapReduction ==
  /\ [][/\ last'.op = "PickCompaction"
        /\ opts.enable_lazy_compaction
        /\ MapPlansInFlight # {}
        => \/ last'.c = nullptr
           \/ last'.c.compaction_reason \notin
                {"kTrivialMoveLevel", "kUniversalSortedRunNum"}]_vars
  /\ [](opts.enable_lazy_compaction =>
          Cardinality({c \in MapPlansInFlight :
                         c.compaction_reason = "kUniversalSortedRunNum"}) <= 1)

\* lines 333-335 are entered: lazy compaction with a table cache, no
\* registered plan with purpose Map, no trivial move to pick, and more than
\* one run but no more than trigger + num_levels - 1
ReduceTargetScanned ==
  /\ opts.enable_lazy_compaction
  /\ opts.table_cache
  /\ ~NothingToDo
  /\ \/ HasSpaceAmplification
     \/ NumSortedRuns >= opts.level0_file_num_compaction_trigger
  /\ \A cip \in compactions_in_progress_ : cip.compaction_purpose # kMapSst
  /\ PickTrivialMoveCompaction = nullptr
  /\ NumSortedRuns > 1
  /\ NumSortedRuns <=
       opts.level0_file_num_compaction_trigger + opts.num_levels - 1

\* C21: under lazy compaction with no Map plan in flight and no trivial
\* move picked, the reduce target is lowered from trigger + num_levels - 1
\* to max(trigger, runs - 1) only when the read amplification summed over
\* the candidate runs is below trigger + num_levels - 1; when a level with
\* space amplification holds more than one file the target is infinite and
\* the call does not attempt the grouping RatioReduce
ReduceTargetAsStated ==
  [][last'.op = "PickCompaction" /\ ReduceTargetScanned =>
       LET sorted_runs == CalculateSortedRuns
           trigger == opts.level0_file_num_compaction_trigger
           reduced == /\ last'.c # nullptr
                      /\ last'.c.compaction_reason = "kUniversalSortedRunNum"
       IN  /\ LevelReadAmp(sorted_runs, 1, TRUE, 0).rebuild => ~reduced
           /\ reduced =>
                /\ \E props_ok \in BOOLEAN :
                     LevelReadAmp(sorted_runs, 1, props_ok, 0).count <
                       trigger + opts.num_levels - 1
                /\ Len(sorted_runs) >
                     Max2(trigger, Len(sorted_runs) - 1)]_vars

\* the targets with which line 372 calls the grouping RatioReduce in a call
\* that reaches line 313: none when the call does not make it
GroupingTargets ==
  LET sorted_runs == CalculateSortedRuns
      n == Len(sorted_runs)
  IN  IF /\ opts.enable_lazy_compaction
         /\ n > 0
         /\ HasSpaceAmplification \/
              n >= opts.level0_file_num_compaction_trigger
      THEN {t \in {ReduceSortedRunTarget(sorted_runs, props_ok) :
                     props_ok \in PropsChoices} : t # kNoTarget /\ n > t}
      ELSE {}

\* the groups that GenSortedRunGroup cuts the runs into for a target
StatedGroups(sorted_runs, target) ==
  GenSortedRunGroup(
    [i \in 1..Len(sorted_runs) |->
       (sorted_runs[i].size * Scale) \div opts.write_buffer_size],
    target).groups

\* the runs (1-based) of the first group with more than one run and no
\* run being compacted, or no runs without such a group
FirstFreeGroup(sorted_runs, group) ==
  LET free == {j \in 1..Len(group) :
                 /\ group[j].count > 1
                 /\ \A i \in (group[j].start + 1)..(group[j].start + group[j].count) :
                      ~sorted_runs[i].being_compacted}
  IN  IF free = {} THEN {}
      ELSE LET j == CHOOSE f \in free : \A o \in free : f <= o
           IN  (group[j].start + 1)..(group[j].start + group[j].count)

\* the call came back with the plan that is stated for the target
GroupPlanAsStated(sorted_runs, target, c) ==
  LET picked == FirstFreeGroup(sorted_runs, StatedGroups(sorted_runs, target))
      reduced == c # nullptr /\ c.compaction_reason = "kUniversalSortedRunNum"
  IN  /\ reduced <=> picked # {}
      /\ reduced =>
           /\ PlanFiles(c) = UNION {RunFileNums(sorted_runs[i]) : i \in picked}
           /\ c.compaction_purpose = kMapSst
           /\ c.max_subcompactions = 1

\* C23: the grouping RatioReduce returns a plan whose inputs are exactly
\* the runs of the first group that has more than one run and no run being
\* compacted, with purpose Map, max_subcompactions = 1 and reason
\* kUniversalSortedRunNum, and it declines exactly when there is no such
\* group
GroupPlanExact ==
  [][last'.op = "PickCompaction" =>
       \A target \in GroupingTargets :
         Cardinality(GroupingTargets) = 1 =>
           GroupPlanAsStated(CalculateSortedRuns, target, last'.c)]_vars

\* the runs (1-based) of the groups with more than one run
RunsToReduce(group) ==
  UNION {(group[j].start + 1)..(group[j].start + group[j].count) :
           j \in {k \in 1..Len(group) : group[k].count > 1}}

\* the runs that carry wait_reduce
WaitReduceRuns(sorted_runs) ==
  {i \in 1..Len(sorted_runs) : sorted_runs[i].wait_reduce}

\* a run that Composite would look at were it not for wait_reduce
CompositeCandidate(sr) ==
  IF sr.level > 0
  THEN /\ HasSpaceAmplificationAt(sr.level)
       /\ ~AreFilesInCompaction(LevelFiles(sr.level))
  ELSE ~sr.file.being_compacted /\ sr.file.sst_purpose = kMapSst

\* C24: within one PickCompaction call, after the grouping RatioReduce has
\* run, the runs that carry wait_reduce are exactly the runs of the groups
\* with more than one run, picked or not, and when RatioReduce declines the
\* plan of Composite holds no file of a run that carries wait_reduce
WaitReduceKept ==
  [][last'.op = "PickCompaction" =>
       \A target \in GroupingTargets :
         Cardinality(GroupingTargets) = 1 =>
           LET sorted_runs == CalculateSortedRuns
               r == PickCompactionToReduceSortedRuns(sorted_runs, target)
               tagged == WaitReduceRuns(r.sorted_runs)
           IN  /\ tagged = RunsToReduce(StatedGroups(sorted_runs, target))
               /\ (/\ r.c = nullptr
                   /\ last'.c # nullptr
                   /\ last'.c.compaction_reason = "kCompositeAmplification")
                  => \A i \in tagged :
                       RunFileNums(sorted_runs[i]) \cap PlanFiles(last'.c) = {}]_vars

\* a call in which RatioReduce declined and left wait_reduce on a run that
\* Composite would have looked at, and that came back without a plan
WaitReduceKeptWitness ==
  /\ last.op = "PickCompaction"
  /\ last.c = nullptr
  /\ ~last.crashed
  /\ opts.table_cache
  /\ Cardinality(GroupingTargets) = 1
  /\ \A target \in GroupingTargets :
       LET sorted_runs == CalculateSortedRuns
           r == PickCompactionToReduceSortedRuns(sorted_runs, target)
       IN  /\ r.c = nullptr
           /\ \E i \in WaitReduceRuns(r.sorted_runs) :
                CompositeCandidate(sorted_runs[i])

\* C25: in the grouping RatioReduce the inputs vector has one slot per
\* picked run and is indexed by run level - start level; for every picked
\* run that index is below the number of picked runs, also when the picked
\* runs sit on levels that are not adjacent, so no slot outside the vector
\* is written
InputSlotsSuffice ==
  [][last'.op = "PickCompaction" =>
       \A target \in GroupingTargets :
         Cardinality(GroupingTargets) = 1 =>
           LET sorted_runs == CalculateSortedRuns
               picked == FirstFreeGroup(sorted_runs,
                                        StatedGroups(sorted_runs, target))
           IN  /\ \A i \in picked, first \in picked :
                    sorted_runs[i].level - sorted_runs[first].level <
                      Cardinality(picked)
               /\ ~PickCompactionToReduceSortedRuns(sorted_runs,
                                                    target).out_of_bounds]_vars

\* the first file of LevelFiles(0), newest first, that is marked for
\* compaction: its position, or 0 when no file is marked
FirstMarkedL0 ==
  LET files == LevelFiles(0)
      from == {i \in 1..Len(files) : files[i].marked_for_compaction}
  IN  IF from = {} THEN 0 ELSE CHOOSE i \in from : \A o \in from : i <= o

\* the files stated for the single-level plan: the first marked file with
\* the L0 files that are older, or with those that are newer
SingleLevelMarked(older) ==
  LET files == LevelFiles(0)
      first == FirstMarkedL0
  IN  IF first = 0 THEN {}
      ELSE {files[i].num : i \in IF older THEN first..Len(files) ELSE 1..first}

\* a PickCompaction call on a single-level engine ends as stated for
\* DeleteTriggered: a plan with reason kFilesMarkedForCompaction holds the
\* stated files and has output level 0, and the call comes back without a
\* plan only when the stated files are fewer than two
SingleLevelMarkedPlan(older) ==
  last'.op = "PickCompaction" /\ NumLevels = 1 =>
    /\ (last'.c # nullptr /\
        last'.c.compaction_reason = "kFilesMarkedForCompaction") =>
         /\ PlanFiles(last'.c) = SingleLevelMarked(older)
         /\ Cardinality(PlanFiles(last'.c)) >= 2
         /\ last'.c.output_level = 0
    /\ last'.c = nullptr =>
         Cardinality(SingleLevelMarked(older)) <= 1

\* C26 as stated: DeleteTriggered on a single-level engine finds the first
\* L0 file marked for compaction and returns a plan with that file and all
\* newer L0 files, output level 0 and reason kFilesMarkedForCompaction; it
\* declines when only one file would be included or when no file is marked
MarkedWithNewer == [][SingleLevelMarkedPlan(FALSE)]_vars

\* C26: the same with the L0 files older than the first marked file, those
\* that follow it in LevelFiles(0)
MarkedWithOlder == [][SingleLevelMarkedPlan(TRUE)]_vars

\* a single-level plan of DeleteTriggered that starts below the newest file
MarkedWithOlderWitness ==
  /\ NumLevels = 1
  /\ last.op = "PickCompaction"
  /\ last.c # nullptr
  /\ last.c.compaction_reason = "kFilesMarkedForCompaction"
  /\ Cardinality(PlanFiles(last.c)) >= 2
  /\ \E i \in 1..Len(LevelFiles(0)) :
       /\ LevelFiles(0)[i].num \notin PlanFiles(last.c)
       /\ \A n \in PlanFiles(last.c) : LevelFiles(0)[i].num > n

\* the output level stated for a marked file of level start_level: the
\* first level below it that holds files, the bottommost level when none
\* does; `reserved` takes the level that allow_ingest_behind reserves into
\* account
MarkedOutputLevel(start_level, reserved) ==
  LET below == {l \in (start_level + 1)..(NumLevels - 1) :
                  NumLevelFiles(l) # 0}
      bottom == IF below = {} THEN NumLevels - 1
                ELSE CHOOSE l \in below : \A o \in below : l <= o
  IN  IF reserved /\ opts.allow_ingest_behind /\ bottom = NumLevels - 1
      THEN bottom - 1 ELSE bottom

\* the plan c is the one stated for the marked file of level start_level
MarkedPlanFor(c, start_level, file, reserved) ==
  LET output_level == MarkedOutputLevel(start_level, reserved)
      l0 == OverlappingL0(file.smallest.u, file.largest.u)
      lower == OverlappingFiles(LevelFiles(output_level),
                                SmallestUserKey(l0), LargestUserKey(l0))
  IN  /\ file.num \in PlanFiles(c)
      /\ start_level > 0 =>
           \E l \in (start_level + 1)..(NumLevels - 1) : NumLevelFiles(l) # 0
      /\ c.output_level = output_level
      /\ (start_level = 0 /\ output_level > 0) =>
           PlanFiles(c) = FileNums(l0) \cup FileNums(lower)
      /\ (opts.enable_lazy_compaction /\ output_level > 0) =>
           /\ c.compaction_purpose = kMapSst
           /\ c.max_subcompactions = 1

\* a PickCompaction call on a multi-level engine that returns a plan with
\* reason kFilesMarkedForCompaction returns the plan stated for one of the
\* marked files
MarkedPlanStep(reserved) ==
  (/\ last'.op = "PickCompaction"
   /\ NumLevels > 1
   /\ last'.c # nullptr
   /\ last'.c.compaction_reason = "kFilesMarkedForCompaction")
  => \E marked \in FilesMarkedForCompaction :
       MarkedPlanFor(last'.c, marked[1], marked[2], reserved)

\* C27 as stated: DeleteTriggered on a multi-level engine writes to the
\* first non-empty level below the start level of the marked file; when
\* every lower level is empty it writes to the bottommost level from
\* start level 0 and declines from a start level > 0; from start level 0
\* with an output level > 0 the inputs are all overlapping L0 files and the
\* overlapping files of the output level; the reason is
\* kFilesMarkedForCompaction and, under lazy compaction with an output
\* level > 0, the purpose is Map with max_subcompactions = 1
MarkedOutputFirstBelow == [][MarkedPlanStep(FALSE)]_vars

\* C27: the same with the output level one above the bottommost level when
\* allow_ingest_behind is set and the level found is the bottommost one
MarkedOutputReserved == [][MarkedPlanStep(TRUE)]_vars

\* a plan for a marked L0 file that writes above the reserved bottom level
MarkedOutputReservedWitness ==
  /\ last.op = "PickCompaction"
  /\ last.c # nullptr
  /\ last.c.compaction_reason = "kFilesMarkedForCompaction"
  /\ opts.allow_ingest_behind
  /\ StartLevel(last.c) = 0
  /\ last.c.output_level = NumLevels - 2
  /\ NumLevelFiles(NumLevels - 1) # 0
  /\ Cardinality(PlanFiles(last.c)) >= 2

\* level l is the output level of a plan in flight, returned and not yet
\* completed
InFlightOutputLevel(l) == \E p \in returned : p.output_level = l

\* c is a move as stated, in the tree the call found
TrivialMoveAsStated(c) ==
  LET source == StartLevel(c)
      level0_files == LevelFiles(0)
  IN  /\ opts.allow_trivial_move
      /\ c.output_level >= 1
      /\ c.output_level > source
      /\ \A l \in (source + 1)..c.output_level :
           LevelFiles(l) = <<>> /\ ~InFlightOutputLevel(l)
      /\ Len(c.inputs) = 1
      /\ source >= 1 =>
           /\ LevelFiles(source) # <<>>
           /\ InputFiles(c.inputs) = LevelFiles(source)
           /\ ~AreFilesInCompaction(LevelFiles(source))
      /\ source = 0 =>
           /\ level0_files # <<>>
           /\ InputFiles(c.inputs) = <<level0_files[Len(level0_files)]>>
           /\ ~level0_files[Len(level0_files)].being_compacted

\* one L0 file, levels 1 to 5 empty, level 6 occupied, nothing being
\* compacted and nothing in flight, trivial moves allowed
OneFileAboveBottom ==
  /\ NumLevels = 7
  /\ opts.enable_lazy_compaction
  /\ opts.allow_trivial_move
  /\ NumLevelFiles(0) = 1
  /\ \A l \in 1..5 : NumLevelFiles(l) = 0
  /\ NumLevelFiles(6) > 0
  /\ ~AreFilesInCompaction(AllFiles)
  /\ returned = {}

\* C28: a plan with reason kTrivialMoveLevel is returned only when
\* allow_trivial_move is set; its output level is >= 1, holds no files and
\* is not the output level of a plan in flight; the levels between the
\* source and the output level are empty and not output levels of plans in
\* flight; the source is a whole level >= 1 with no file in a compaction
\* or the oldest L0 file alone, which is not being compacted; and with one
\* L0 file, levels 1 to 5 empty and level 6 occupied the L0 file moves to
\* level 5
TrivialMoveSafe ==
  [][last'.op = "PickCompaction" =>
       /\ (last'.c # nullptr /\
           last'.c.compaction_reason = "kTrivialMoveLevel") =>
            TrivialMoveAsStated(last'.c)
       /\ OneFileAboveBottom =>
            /\ last'.c # nullptr
            /\ last'.c.compaction_reason = "kTrivialMoveLevel"
            /\ PlanFiles(last'.c) = FileNums(LevelFiles(0))
            /\ last'.c.output_level = 5]_vars

\* the L0 file of the seven-level tree is on its way to level 5
TrivialMoveSafeWitness ==
  /\ last.op = "PickCompaction"
  /\ last.c # nullptr
  /\ last.c.compaction_reason = "kTrivialMoveLevel"
  /\ NumLevels = 7
  /\ StartLevel(last.c) = 0
  /\ last.c.output_level = 5
  /\ NumLevelFiles(0) = 1
  /\ PlanFiles(last.c) = FileNums(LevelFiles(0))

\* C29: every plan that PickCompaction returns with reason
\* kTrivialMoveLevel has is_trivial_move set, and any other plan it returns
\* has is_trivial_move set only if allow_trivial_move is set and no input
\* level of the plan has space amplification
TrivialMoveFlagged ==
  [][(last'.op = "PickCompaction" /\ last'.c # nullptr) =>
       IF last'.c.compaction_reason = "kTrivialMoveLevel"
       THEN last'.c.is_trivial_move
       ELSE last'.c.is_trivial_move =>
              /\ opts.allow_trivial_move
              /\ \A i \in 1..Len(last'.c.inputs) :
                   ~HasSpaceAmplificationAt(last'.c.inputs[i].level)]_vars

\* a plan with reason kTrivialMoveLevel that moves a whole level, flagged
TrivialMoveFlaggedWitness ==
  /\ last.op = "PickCompaction"
  /\ last.c # nullptr
  /\ last.c.compaction_reason = "kTrivialMoveLevel"
  /\ last.c.is_trivial_move
  /\ StartLevel(last.c) >= 1
  /\ InputFiles(last.c.inputs) # <<>>

\* the levels whose run carries wait_reduce when Composite is consulted
WaitReduceLevels ==
  LET sorted_runs == CalculateSortedRuns
  IN  UNION {{sorted_runs[i].level :
                i \in WaitReduceRuns(
                        PickCompactionToReduceSortedRuns(sorted_runs,
                                                         target).sorted_runs)} :
             target \in GroupingTargets}

\* the levels > 0 that report space amplification, hold more than one file
\* and have no file in a compaction; `untagged` leaves out the levels whose
\* run carries wait_reduce
CompositeLevels(untagged) ==
  {l \in 1..(NumLevels - 1) :
     /\ HasSpaceAmplificationAt(l)
     /\ NumLevelFiles(l) > 1
     /\ ~AreFilesInCompaction(LevelFiles(l))
     /\ untagged => l \notin WaitReduceLevels}

\* the strategies before Composite declined and Composite was consulted
CompositeConsulted(c, crashed) ==
  /\ opts.table_cache
  /\ ~crashed
  /\ \/ c = nullptr
     \/ c.compaction_reason \in
          {"kCompositeAmplification", "kFilesMarkedForCompaction"}

\* a PickCompaction call that consults Composite returns the plan stated
\* for the lowest of the levels, and no plan of Composite without space
\* amplification
CompositeLevelStep(untagged) ==
  last'.op = "PickCompaction" =>
    LET c == last'.c
        found == CompositeLevels(untagged)
    IN  /\ (c # nullptr /\ c.compaction_reason = "kCompositeAmplification")
           => HasSpaceAmplification
        /\ (CompositeConsulted(c, last'.crashed) /\ found # {}) =>
             LET level == CHOOSE l \in found : \A o \in found : l >= o
             IN  /\ c # nullptr
                 /\ c.compaction_reason = "kCompositeAmplification"
                 /\ Len(c.inputs) = 1
                 /\ InputFiles(c.inputs) = LevelFiles(level)
                 /\ c.output_level = level
                 /\ c.compaction_purpose = kMapSst
                 /\ c.max_subcompactions = 1

\* C30 as stated: Composite walks the runs from the bottom up and, at the
\* first level > 0 that reports space amplification, holds more than one
\* file and has no file in a compaction, returns a plan with all files of
\* that level, that level as output level, purpose Map, max_subcompactions
\* = 1 and reason kCompositeAmplification; it returns no plan when the
\* version reports no space amplification
CompositeFirstLevel == [][CompositeLevelStep(FALSE)]_vars

\* C30: the same for the first such level whose run does not carry
\* wait_reduce
CompositeFirstFreeLevel == [][CompositeLevelStep(TRUE)]_vars

\* a plan of Composite that rebuilds a whole level of several files
CompositeFirstFreeLevelWitness ==
  /\ last.op = "PickCompaction"
  /\ last.c # nullptr
  /\ last.c.compaction_reason = "kCompositeAmplification"
  /\ last.c.compaction_purpose = kMapSst
  /\ last.c.output_level > 0
  /\ Cardinality(PlanFiles(last.c)) > 1
  /\ PlanFiles(last.c) = FileNums(LevelFiles(last.c.output_level))

\* the single-level calls of CompactRange whose map-element iterator
\* reports an error
FailingRangeCalls ==
  {call_args \in CompactRangeCalls :
     call_args.level # kCompactAllLevels /\ ~call_args.range.iter_ok}

\* Composite, handed the runs as they are, would open the iterator and
\* plan an essence rewrite if the scan found ranges
CompositeScans(marked, props_ok) ==
  LET c == PickStrategies(marked, props_ok, "essence").c
  IN  /\ c # nullptr
      /\ c.compaction_reason = "kCompositeAmplification"
      /\ c.compaction_purpose = kEssenceSst

\* in the state before a step: with a failing scan PickCompaction comes to
\* what DeleteTriggered comes to, and the range planner to no plan unless
\* it planned before it opened the iterator (level 0 with several files);
\* and a call that returns no plan registers nothing
IteratorFailureStep ==
  /\ \A marked \in MarkedFileChoices, props_ok \in PropsChoices :
       CompositeScans(marked, props_ok) =>
         PickStrategies(marked, props_ok, "failure").c =
           PickDeleteTriggeredCompaction(marked)
  /\ \A call_args \in FailingRangeCalls :
       LET c == PickRangeCompaction(call_args.level, call_args.range.begin,
                                    call_args.range.end,
                                    call_args.files_being_compact, FALSE).c
       IN  c # nullptr =>
             /\ call_args.level = 0
             /\ NumLevelFiles(0) > 1
             /\ c.compaction_purpose = kMapSst
             /\ c.input_range = <<>>
  /\ (last'.op \in {"PickCompaction", "CompactRange"} /\ last'.c = nullptr) =>
       UNCHANGED <<levels, compactions_in_progress_,
                   level0_compactions_in_progress_, returned>>

\* C33: when the map-element iterator of Composite or of the range
\* planner reports an error, or an element fails to decode in Composite's
\* passes, the strategy returns no plan and registers nothing, and
\* PickCompaction goes on with DeleteTriggered.
IteratorFailureDeclines == [][IteratorFailureStep]_vars

\* in a tree where Composite scans the map file 20 and a failing scan
\* leaves the marked file 13 to DeleteTriggered, PickCompaction came back
\* with the plan of DeleteTriggered over both files
IteratorFailureDeclinesWitness ==
  /\ last.op = "PickCompaction"
  /\ last.c # nullptr
  /\ last.c.compaction_reason = "kFilesMarkedForCompaction"
  /\ PlanFiles(last.c) = {13, 20}
  /\ last.c \in compactions_in_progress_

\* the levels >= 1 that hold a file, and the k-th of them from the top
LevelsWithFiles == {l \in 1..(NumLevels - 1) : NumLevelFiles(l) > 0}

KthLevelWithFiles(k) ==
  CHOOSE l \in LevelsWithFiles :
    Cardinality({o \in LevelsWithFiles : o < l}) = k - 1

\* C35: CalculateSortedRuns gives one run per L0 file in L0 order, then
\* one run for every level >= 1 that holds a file, in level order, and
\* none for an empty level; the run of a level has the sum of the
\* compensated sizes of its files, and under allow_trivial_move it is
\* being compacted when one of its files is.
SortedRunsAsStated ==
  LET sorted_runs == CalculateSortedRuns
      n0 == NumLevelFiles(0)
  IN  /\ Len(sorted_runs) = n0 + Cardinality(LevelsWithFiles)
      /\ \A i \in 1..n0 :
           /\ sorted_runs[i].level = 0
           /\ sorted_runs[i].file = LevelFiles(0)[i]
      /\ \A k \in 1..Cardinality(LevelsWithFiles) :
           LET sr == sorted_runs[n0 + k]
               files == LevelFiles(KthLevelWithFiles(k))
           IN  /\ sr.level = KthLevelWithFiles(k)
               /\ sr.file = nullptr
               /\ sr.compensated_file_size =
                    SumSeq([i \in 1..Len(files) |->
                              files[i].compensated_file_size])
               /\ opts.allow_trivial_move =>
                    (sr.being_compacted <=>
                       \E i \in 1..Len(files) : files[i].being_compacted)

\* under allow_trivial_move a level holds several files of which the
\* first is not being compacted and another is, below an L0 with files
\* and next to an empty level
SortedRunsAsStatedWitness ==
  /\ opts.allow_trivial_move
  /\ NumLevelFiles(0) > 0
  /\ \E l \in 1..(NumLevels - 1) : NumLevelFiles(l) = 0
  /\ \E l \in LevelsWithFiles :
       /\ ~LevelFiles(l)[1].being_compacted
       /\ \E i \in 2..NumLevelFiles(l) : LevelFiles(l)[i].being_compacted
  /\ last.op # "none"

(***************************************************************************)
(* The picker is idle in the specifications that exercise one pure         *)
(* function: its variables hold these values and never change.             *)
(***************************************************************************)

PickerUnused ==
  /\ opts = <<>>
  /\ levels = <<>>
  /\ depend_files = <<>>
  /\ compactions_in_progress_ = {}
  /\ level0_compactions_in_progress_ = {}
  /\ returned = {}
  /\ last = NoCall
  /\ ctr = <<>>

(***************************************************************************)
(* SpecPath: GetPathId applied to a file size f and to 2 * f               *)
(***************************************************************************)
\* 10^10 and 2^64 - 1 as uint64_t
TenGiB == <<0, 228, 11, 84, 2, 0, 0, 0>>

UINT64_MAX == [i \in 1..NumDigits |-> Digit - 1]

\* 2^31 + 26
TwoGiBPlus == <<26, 0, 0, 128, 0, 0, 0, 0>>

PathChoices ==
  { <<U64(100)>>,
    <<U64(100), U64(1000)>>,
    <<U64(100), U64(1000), U64(10000)>>,
    <<TenGiB, U64(0)>>,
    <<U64(150), UINT64_MAX, U64(0)>> }

SizeRatioChoices == {0, 1, 10, 50, 100, 150}

FileSizeChoices ==
  {U64(1), U64(50), U64(80), U64(100), U64(200), U64(500), U64(1000),
   TwoGiBPlus}

PathInit ==
  /\ PickerUnused
  /\ \E cf \in PathChoices, r \in SizeRatioChoices, f \in FileSizeChoices :
       fx = [op |-> "path_input", cf_paths |-> cf, size_ratio |-> r,
             file_size |-> f]

PathCall ==
  /\ fx.op = "path_input"
  /\ fx' = [op |-> "path_result", cf_paths |-> fx.cf_paths,
            size_ratio |-> fx.size_ratio, file_size |-> fx.file_size,
            path_id |-> GetPathId(fx.cf_paths, fx.size_ratio, fx.file_size),
            path_id_doubled |->
              GetPathId(fx.cf_paths, fx.size_ratio,
                        AddU64(fx.file_size, fx.file_size))]
  /\ UNCHANGED pickerVars

PathNext == PathCall

SpecPath == PathInit /\ [][PathNext]_vars

\* C10: for every cf_paths, size_ratio and f, GetPathId(2 * f) is at least
\* GetPathId(f): a larger file never lands on an earlier path.
PathIdMonotone ==
  fx.op = "path_result" => fx.path_id_doubled >= fx.path_id

\* a sum of uint64_t values that is not cut at 2^64: carry counts the
\* multiples of 2^64
AddExact(w, b) ==
  LET low == AddU64(w.low, b)
  IN  [carry |-> w.carry + (IF LtU64(low, b) THEN 1 ELSE 0), low |-> low]

\* f * (100 - size_ratio) / 100 for size_ratio <= 100, without the product
\* leaving 64 bits: f = 100 * q + rem
FutureExact(file_size, size_ratio) ==
  LET q == DivU64(file_size, 100)
      rem == SubU64(file_size, MulU64(q, U64(100)))
  IN  AddU64(MulU64(q, U64(100 - size_ratio)),
             DivU64(MulU64(rem, U64(100 - size_ratio)), 100))

\* the first p of 0..n-2 with target_p > f and
\* (sum of the targets before p) + (target_p - f) > f * (100 - size_ratio) / 100
\* over the integers, or n - 1; with size_ratio > 100 the right-hand side
\* is negative and every sum is above it
RECURSIVE PathAsStatedFrom(_, _, _, _, _)
PathAsStatedFrom(cf_paths, size_ratio, file_size, p, acc) ==
  IF p >= Len(cf_paths) - 1 THEN Len(cf_paths) - 1
  ELSE LET target == cf_paths[p + 1]
           sum == AddExact(acc, SubU64(target, file_size))
       IN  IF /\ GtU64(target, file_size)
              /\ \/ size_ratio > 100
                 \/ sum.carry > 0
                 \/ GtU64(sum.low, FutureExact(file_size, size_ratio))
           THEN p
           ELSE PathAsStatedFrom(cf_paths, size_ratio, file_size, p + 1,
                                 AddExact(acc, target))

\* C11: GetPathId returns the first path p before the last one with
\* target_p > f and (targets before p) + (target_p - f) above
\* f * (100 - size_ratio) / 100, the last path when there is none, and
\* always an index of a path
PathIdAsStated ==
  fx.op = "path_result" =>
    /\ fx.path_id \in 0..(Len(fx.cf_paths) - 1)
    /\ fx.path_id = PathAsStatedFrom(fx.cf_paths, fx.size_ratio,
                                     fx.file_size, 0,
                                     [carry |-> 0, low |-> U64Zero])

(***************************************************************************)
(* SpecGroup: GenSortedRunGroup applied to n sorted-run sizes and a        *)
(* number of groups between 1 and n                                        *)
(***************************************************************************)
MaxRuns == 4

\* sorted-run sizes as multiples of write_buffer_size: 0.5, 1, 5 and 20
RunRatioChoices == {Scale \div 2, Scale, 5 * Scale, 20 * Scale}

RunRatioSeqs == UNION {[1..n -> RunRatioChoices] : n \in 1..MaxRuns}

GroupInit ==
  /\ PickerUnused
  /\ \E sr \in RunRatioSeqs :
       \E g \in 1..Len(sr) :
         fx = [op |-> "group_input", sr |-> sr, group |-> g]

GroupCall ==
  /\ fx.op = "group_input"
  /\ fx' = [op |-> "group_result", sr |-> fx.sr, group |-> fx.group,
            output_group |-> GenSortedRunGroup(fx.sr, fx.group).groups]
  /\ UNCHANGED pickerVars

GroupNext == GroupCall

SpecGroup == GroupInit /\ [][GroupNext]_vars

\* C9: for 1 <= g <= n, GenSortedRunGroup emits exactly g groups; the first
\* starts at run 0, each starts where the one before ends, each holds at
\* least one run, and the counts add up to n.
GroupsPartitionRuns ==
  fx.op = "group_result" =>
    LET o == fx.output_group
    IN  /\ Len(o) = fx.group
        /\ o[1].start = 0
        /\ \A j \in 1..Len(o) : o[j].count >= 1
        /\ \A j \in 1..(Len(o) - 1) : o[j + 1].start = o[j].start + o[j].count
        /\ SumSeq([j \in 1..Len(o) |-> o[j].count]) = Len(fx.sr)

\* a call with fewer groups than runs that cut the runs into several
\* groups, not all of them single runs and not all in the last group
GroupsPartitionRunsWitness ==
  /\ fx.op = "group_result"
  /\ fx.group >= 2
  /\ Len(fx.sr) > fx.group
  /\ \E j \in 1..(fx.group - 1) : fx.output_group[j].count > 1

(***************************************************************************)
(* SpecAmp: PickCompactionToReduceSizeAmp applied to the sorted runs of a  *)
(* tree of up to MaxAmpRuns L0 files over a bottom level                   *)
(***************************************************************************)
MaxAmpRuns == 4

\* an L0 file: its size, and whether it is marked (a marked file's
\* compensated size is above its size)
AmpFileChoices ==
  {[size |-> 10, marked |-> FALSE], [size |-> 5, marked |-> FALSE],
   [size |-> 5, marked |-> TRUE]}

AmpBottomSizes == {7, 20}

AmpPercentChoices == {150, 200}

\* the L0 files newest first, each being compacted or not
AmpLevel0(choice) ==
  [i \in 1..Len(choice) |->
     [File(30 - i, 1, 4, 30 - i, 30 - i, choice[i][1].size,
           choice[i][1].marked)
        EXCEPT !.being_compacted = choice[i][2]]]

AmpBottom(size, being_compacted) ==
  <<[File(10, 1, 4, 1, 5, size, FALSE)
       EXCEPT !.being_compacted = being_compacted]>>

\* level 1: empty, or two files that are both being compacted or both free
AmpMiddle(being_compacted) ==
  <<[File(12, 1, 2, 6, 7, 3, FALSE)
       EXCEPT !.being_compacted = being_compacted],
    [File(11, 3, 4, 8, 9, 4, FALSE)
       EXCEPT !.being_compacted = being_compacted]>>

AmpInit ==
  /\ \E percent \in AmpPercentChoices, ingest \in BOOLEAN :
       opts = [Options EXCEPT !.max_size_amplification_percent = percent,
                              !.allow_ingest_behind = ingest]
  /\ \E n \in 0..MaxAmpRuns :
       \E choice \in [1..n -> AmpFileChoices \X BOOLEAN] :
         \E bottom \in {<<>>} \cup
                       {AmpBottom(size, bc) : size \in AmpBottomSizes,
                                              bc \in BOOLEAN} :
           \E middle \in {<<>>} \cup {AmpMiddle(bc) : bc \in BOOLEAN} :
             /\ n > 0 \/ middle # <<>> \/ bottom # <<>>
             /\ levels = <<AmpLevel0(choice), middle, bottom>>
  /\ depend_files = <<>>
  /\ compactions_in_progress_ = {}
  /\ level0_compactions_in_progress_ = {}
  /\ returned = {}
  /\ last = NoCall
  /\ ctr = <<>>
  /\ fx = [op |-> "amp_input"]

AmpCall ==
  /\ fx.op = "amp_input"
  /\ fx' = [op |-> "amp_result",
            c |-> PickCompactionToReduceSizeAmp(CalculateSortedRuns)]
  /\ UNCHANGED pickerVars

AmpNext == AmpCall

SpecAmp == AmpInit /\ [][AmpNext]_vars

\* SizeAmp as it is stated, with the candidate size taken over the
\* candidate runs only
SizeAmpFromFirstFree(sorted_runs) ==
  LET n == Len(sorted_runs)
      candidate_size ==
        SumSeq([i \in UpperRuns(sorted_runs) |->
                  IF i \in CandidateRuns(sorted_runs)
                  THEN sorted_runs[i].compensated_file_size ELSE 0])
      earliest_file_size == sorted_runs[n].size
  IN  /\ ~sorted_runs[n].being_compacted
      /\ CandidateRuns(sorted_runs) # {}
      /\ \A i \in CandidateRuns(sorted_runs) : ~sorted_runs[i].being_compacted
      /\ ~LtU64(MulU64(U64(candidate_size), U64(100)),
                MulU64(U64(opts.max_size_amplification_percent),
                       U64(earliest_file_size)))

\* C15 as stated: SizeAmp produces a plan exactly when the bottommost run
\* is not being compacted, no candidate run is being compacted, and
\* candidate_size * 100 >= max_size_amplification_percent *
\* earliest_file_size, with candidate_size the compensated sizes of all runs
\* except the bottommost and earliest_file_size the size of the bottommost
SizeAmpAsClaimed ==
  fx.op = "amp_result" =>
    (fx.c # nullptr <=> SizeAmpAsStated(CalculateSortedRuns))

\* C15: the same with candidate_size the compensated sizes of the runs from
\* the first one that is not being compacted to the one before the
\* bottommost, of which there is at least one
SizeAmpExactly ==
  fx.op = "amp_result" =>
    (fx.c # nullptr <=> SizeAmpFromFirstFree(CalculateSortedRuns))

\* a plan over a tree whose newest file is being compacted
SizeAmpExactlyWitness ==
  /\ fx.op = "amp_result"
  /\ fx.c # nullptr
  /\ levels[1] # <<>>
  /\ levels[1][1].being_compacted

\* the files of the runs from the first one not being compacted on
FilesFromFirstFree(sorted_runs) ==
  UNION {RunFileNums(sorted_runs[i]) :
           i \in {k \in 1..Len(sorted_runs) :
                    \E f \in 1..k : ~sorted_runs[f].being_compacted}}

\* C16: a plan of SizeAmp holds every file of every sorted run from the
\* first run not being compacted to the bottommost, its output level is
\* num_levels - 1, or num_levels - 2 under allow_ingest_behind, and its
\* reason is kUniversalSizeAmplification; four L0 files of size 10 over a
\* bottom level of size 20 with max_size_amplification_percent = 150 give a
\* plan of the four files and the bottom level
SizeAmpPlan ==
  fx.op = "amp_result" =>
    /\ fx.c # nullptr =>
         /\ PlanFiles(fx.c) = FilesFromFirstFree(CalculateSortedRuns)
         /\ fx.c.output_level = IF opts.allow_ingest_behind
                                THEN opts.num_levels - 2
                                ELSE opts.num_levels - 1
         /\ fx.c.compaction_reason = "kUniversalSizeAmplification"
    /\ /\ opts.max_size_amplification_percent = 150
       /\ Len(levels[1]) = 4
       /\ \A i \in 1..4 : /\ levels[1][i].compensated_file_size = 10
                          /\ ~levels[1][i].being_compacted
       /\ levels[2] = <<>>
       /\ levels[3] = AmpBottom(20, FALSE)
       => /\ fx.c # nullptr
          /\ PlanFiles(fx.c) = FileNums(AllFiles)
          /\ Cardinality(PlanFiles(fx.c)) = 5

\* the plan for four L0 files of size 10 over a bottom level of size 20
SizeAmpPlanWitness ==
  /\ fx.op = "amp_result"
  /\ fx.c # nullptr
  /\ opts.max_size_amplification_percent = 150
  /\ Len(levels[1]) = 4
  /\ \A i \in 1..4 : levels[1][i].file_size = 10
  /\ levels[2] = <<>>
  /\ levels[3] = AmpBottom(20, FALSE)
  /\ Cardinality(PlanFiles(fx.c)) = 5

(***************************************************************************)
(* SpecRatio: PickCompactionToReduceSortedRunsOld applied, as line 391     *)
(* calls it, to the sorted runs of up to MaxRatioRuns L0 files             *)
(***************************************************************************)
MaxRatioRuns == 4

RatioSizeChoices == {100, 90, 50, 10}

RatioPercentChoices == {1, 20}

RatioWidthChoices == {U64(4), UINT_MAX}

\* the L0 files newest first, each being compacted or not
RatioLevel0(choice, marked) ==
  [i \in 1..Len(choice) |->
     [File(30 - i, 1, 4, 30 - i, 30 - i, choice[i][1], marked /\ i = 1)
        EXCEPT !.being_compacted = choice[i][2]]]

\* the arguments of lines 391 and 422: the ratio and the cap on the files
RatioArguments ==
  {[ratio |-> "size_ratio", max_number_of_files_to_compact |-> UINT_MAX],
   [ratio |-> "UINT_MAX", max_number_of_files_to_compact |-> U64(2)]}

RatioArgument(ratio) ==
  IF ratio = "size_ratio" THEN U64(opts.size_ratio) ELSE UINT_MAX

RatioInit ==
  /\ \E percent \in RatioPercentChoices, width \in RatioWidthChoices,
        style \in {kCompactionStopStyleTotalSize,
                   kCompactionStopStyleSimilarSize} :
       opts = [Options EXCEPT !.size_ratio = percent,
                              !.max_merge_width = width,
                              !.stop_style = style]
  /\ \E n \in 1..MaxRatioRuns :
       \E choice \in [1..n -> RatioSizeChoices \X BOOLEAN], marked \in BOOLEAN :
         levels = <<RatioLevel0(choice, marked), <<>>, <<>>>>
  /\ depend_files = <<>>
  /\ compactions_in_progress_ = {}
  /\ level0_compactions_in_progress_ = {}
  /\ returned = {}
  /\ last = NoCall
  /\ ctr = <<>>
  /\ \E arguments \in RatioArguments :
       fx = [op |-> "ratio_input", arguments |-> arguments]

RatioCall ==
  /\ fx.op = "ratio_input"
  /\ fx' = [op |-> "ratio_result", arguments |-> fx.arguments,
            c |-> PickCompactionToReduceSortedRunsOld(
                    RatioArgument(fx.arguments.ratio),
                    fx.arguments.max_number_of_files_to_compact,
                    CalculateSortedRuns)]
  /\ UNCHANGED pickerVars

RatioNext == RatioCall

SpecRatio == RatioInit /\ [][RatioNext]_vars

\* four L0 runs of sizes 100, 90, 50 and 10, newest first, none being
\* compacted, size_ratio 20, min_merge_width 2 and max_merge_width 4
RatioWindowScenario ==
  /\ fx.op = "ratio_result"
  /\ fx.arguments.ratio = "size_ratio"
  /\ ~levels[1][1].marked_for_compaction
  /\ opts.size_ratio = 20
  /\ opts.min_merge_width = 2
  /\ opts.max_merge_width = U64(4)
  /\ Len(levels[1]) = 4
  /\ \A i \in 1..4 : ~levels[1][i].being_compacted
  /\ [i \in 1..4 |-> levels[1][i].file_size] = <<100, 90, 50, 10>>

\* C17 as stated: in that scenario the legacy RatioReduce picks the two
\* runs of sizes 100 and 90 and no other, with reason kUniversalSizeRatio
RatioWindowTwoRuns ==
  RatioWindowScenario =>
    /\ fx.c # nullptr
    /\ PlanFiles(fx.c) = {levels[1][1].num, levels[1][2].num}
    /\ fx.c.compaction_reason = "kUniversalSizeRatio"

\* C17: in that scenario the legacy RatioReduce returns a plan with reason
\* kUniversalSizeRatio; under kCompactionStopStyleSimilarSize it holds the
\* two runs of sizes 100 and 90, under kCompactionStopStyleTotalSize all
\* four runs
RatioWindowByStyle ==
  RatioWindowScenario =>
    /\ fx.c # nullptr
    /\ fx.c.compaction_reason = "kUniversalSizeRatio"
    /\ opts.stop_style = kCompactionStopStyleSimilarSize =>
         PlanFiles(fx.c) = {levels[1][1].num, levels[1][2].num}
    /\ opts.stop_style = kCompactionStopStyleTotalSize =>
         PlanFiles(fx.c) = FileNums(levels[1])

\* the scenario under kCompactionStopStyleSimilarSize, with its two runs
RatioWindowByStyleWitness ==
  /\ RatioWindowScenario
  /\ opts.stop_style = kCompactionStopStyleSimilarSize
  /\ fx.c # nullptr
  /\ Cardinality(PlanFiles(fx.c)) = 2

\* the stated test for taking the next run: succ.size <= C * (100 + ratio)
\* / 100, and under SimilarSize also C <= succ.size * (100 + ratio) / 100
StatedRatioHolds(C, ratio, succ_size) ==
  /\ ~LtU64(MulU64(U64(C), AddU64(U64(100), ratio)),
            MulU64(U64(succ_size), U64(100)))
  /\ opts.stop_style = kCompactionStopStyleSimilarSize =>
       ~LtU64(MulU64(U64(succ_size), AddU64(U64(100), ratio)),
              MulU64(U64(C), U64(100)))

\* what a run adds to the accumulator C: its size, or its compensated size
Accumulated(sr, compensated) ==
  IF compensated THEN sr.compensated_file_size ELSE sr.size

\* the number of runs of the stated window that now ends with run i and
\* holds count runs
RECURSIVE StatedExtend(_, _, _, _, _, _, _)
StatedExtend(sorted_runs, ratio, limit, compensated, i, count, C) ==
  IF /\ LtU64(U64(count), limit)
     /\ i < Len(sorted_runs)
     /\ ~sorted_runs[i + 1].being_compacted
     /\ StatedRatioHolds(C, ratio, sorted_runs[i + 1].size)
  THEN StatedExtend(sorted_runs, ratio, limit, compensated, i + 1, count + 1,
         IF opts.stop_style = kCompactionStopStyleSimilarSize
         THEN Accumulated(sorted_runs[i + 1], compensated)
         ELSE C + Accumulated(sorted_runs[i + 1], compensated))
  ELSE count

\* the stated plan: the runs of the first window of at least
\* max(2, min_merge_width) runs, or no runs when there is no such window
StatedWindowRuns(sorted_runs, ratio, cap, compensated) ==
  LET limit == IF LtU64(opts.max_merge_width, cap)
               THEN opts.max_merge_width ELSE cap
      width(first) ==
        StatedExtend(sorted_runs, ratio, limit, compensated, first, 1,
                     Accumulated(sorted_runs[first], compensated))
      starts == {first \in 1..Len(sorted_runs) :
                   /\ ~sorted_runs[first].being_compacted
                   /\ width(first) >= Max2(opts.min_merge_width, 2)}
  IN  IF starts = {} THEN {}
      ELSE LET first == CHOOSE f \in starts : \A o \in starts : f <= o
           IN  first..(first + width(first) - 1)

\* the plan of the call is that of the stated rule
RatioWindowIs(compensated) ==
  fx.op = "ratio_result" =>
    LET sorted_runs == CalculateSortedRuns
        window == StatedWindowRuns(sorted_runs,
                    RatioArgument(fx.arguments.ratio),
                    fx.arguments.max_number_of_files_to_compact, compensated)
    IN  /\ fx.c = nullptr <=> window = {}
        /\ fx.c # nullptr =>
             PlanFiles(fx.c) = {sorted_runs[i].file.num : i \in window}

\* C22 as stated: the window of the legacy RatioReduce starts at the first
\* run not being compacted with C its size, takes the next run while that
\* run is not being compacted, the window has fewer than
\* min(max_merge_width, cap) runs and succ.size <= C * (100 + ratio) / 100
\* (under SimilarSize also C <= succ.size * (100 + ratio) / 100), C being
\* the total of the picked runs under TotalSize and the last picked run
\* under SimilarSize; the first window of at least max(2, min_merge_width)
\* runs is the plan, and without one the strategy declines
RatioWindowRule == RatioWindowIs(FALSE)

\* C22: the same with C made of the compensated sizes of the picked runs,
\* against the sizes of the runs that follow
RatioWindowRuleCompensated == RatioWindowIs(TRUE)

\* a plan whose window starts after a run that could not start one
RatioWindowRuleCompensatedWitness ==
  /\ fx.op = "ratio_result"
  /\ fx.c # nullptr
  /\ ~levels[1][1].being_compacted
  /\ levels[1][1].marked_for_compaction
  /\ levels[1][1].num \notin PlanFiles(fx.c)
  /\ Cardinality(PlanFiles(fx.c)) >= 2

(***************************************************************************)
(* SpecScan: the passes of PickCompositeCompaction and the sweep of        *)
(* PickRangeCompaction over the map elements of one map file at level 1    *)
(***************************************************************************)
\* a map file has at most MaxElems elements over the user keys
\* 1..MaxUserKey
MaxElems == 3

MaxUserKey == 3

\* what an element can link: one essence file whose range it covers, the
\* part of one file, three files of which one dominates, two files alike,
\* a file that depend_files does not know, or bytes that do not decode
ElementLinks ==
  {[link_ |-> <<[file_number |-> 10, size |-> 5]>>, preface |-> TRUE,
    decodes |-> TRUE],
   [link_ |-> <<[file_number |-> 11, size |-> 3]>>, preface |-> FALSE,
    decodes |-> TRUE],
   [link_ |-> <<[file_number |-> 12, size |-> 10],
                [file_number |-> 10, size |-> 1],
                [file_number |-> 11, size |-> 1]>>, preface |-> FALSE,
    decodes |-> TRUE],
   [link_ |-> <<[file_number |-> 10, size |-> 3],
                [file_number |-> 11, size |-> 3]>>, preface |-> FALSE,
    decodes |-> TRUE],
   [link_ |-> <<[file_number |-> 99, size |-> 4]>>, preface |-> FALSE,
    decodes |-> TRUE],
   [link_ |-> <<>>, preface |-> FALSE, decodes |-> FALSE]}

\* the elements of a map file: in key order, none overlapping the next
ScanElements ==
  UNION {
    {[i \in 1..n |->
        [smallest_key_ |-> IKey(keys[2 * i - 1], 2 * (n - i) + 2),
         largest_key_ |-> IKey(keys[2 * i], 2 * (n - i) + 1),
         link_ |-> links[i].link_, preface |-> links[i].preface,
         decodes |-> links[i].decodes]] :
       keys \in {k \in [1..(2 * n) -> 1..MaxUserKey] :
                   \A i \in 1..(2 * n - 1) : k[i] <= k[i + 1]},
       links \in [1..n -> ElementLinks]} :
    n \in 1..MaxElems}

\* max_subcompactions, target_file_size_base and max_compaction_bytes
ScanTunings ==
  {[max_subcompactions |-> cap, target_file_size_base |-> sizes[1],
    max_compaction_bytes |-> sizes[2]] :
     cap \in 1..3, sizes \in {<<1, 4>>, <<8, 100>>}}

\* the column family: the map file 20 alone at the last level
ScanInit ==
  /\ \E elems \in ScanElements, tuning \in ScanTunings :
       /\ opts = [Options EXCEPT
                    !.num_levels = 2,
                    !.enable_lazy_compaction = TRUE,
                    !.table_cache = TRUE,
                    !.max_subcompactions = tuning.max_subcompactions,
                    !.target_file_size_base = tuning.target_file_size_base,
                    !.max_compaction_bytes = tuning.max_compaction_bytes]
       /\ levels = <<<<>>,
                     <<[File(20, elems[1].smallest_key_.u,
                             elems[Len(elems)].largest_key_.u, 1, 8, 1, FALSE)
                          EXCEPT !.sst_purpose = kMapSst,
                                 !.sst_depend = <<10, 11, 12>>,
                                 !.read_amp = 3,
                                 !.elems = elems]>>>>
  /\ depend_files = (10 :> File(10, 1, MaxUserKey, 1, 2, 5, FALSE)) @@
                    (11 :> File(11, 1, MaxUserKey, 3, 4, 5, FALSE)) @@
                    (12 :> File(12, 1, MaxUserKey, 5, 6, 10, FALSE))
  /\ compactions_in_progress_ = {}
  /\ level0_compactions_in_progress_ = {}
  /\ returned = {}
  /\ last = NoCall
  /\ ctr = <<>>
  /\ fx = [op |-> "scan_input"]

\* the passes of PickCompositeCompaction over the map file
CompositeCall ==
  /\ fx.op = "scan_input"
  /\ \E iter_ok \in BOOLEAN :
       \E order \in PopOrders(MapElements(LevelFiles(1)),
                      LinkPass(MapElements(LevelFiles(1)), 1,
                               LevelInputs(1, LevelFiles(1)),
                               PassStart).file_used) :
         fx' = [op |-> "composite_result", iter_ok |-> iter_ok,
                order |-> order,
                r |-> CompositePasses(LevelInputs(1, LevelFiles(1)),
                                      MapElements(LevelFiles(1)), iter_ok,
                                      order)]
  /\ UNCHANGED pickerVars

\* the manual compactions of level 1 that PickRangeCompaction can be asked
ScanRangeCalls ==
  {[begin |-> range[1], end |-> range[2],
    files_being_compact |-> [files |-> files], iter_ok |-> iter_ok] :
     range \in {<<nullptr, nullptr>>, <<IKey(2, 0), nullptr>>,
                <<nullptr, IKey(2, 0)>>},
     files \in {{10}, {10, 11, 12, 99}}, iter_ok \in BOOLEAN}

\* PickRangeCompaction over the map file; it reads what Decode leaves in
\* map_element without a look at what Decode returns, so the call is
\* followed for the map files whose elements all decode
RangeCall ==
  /\ fx.op = "scan_input"
  /\ \A i \in 1..Len(LevelFiles(1)[1].elems) : LevelFiles(1)[1].elems[i].decodes
  /\ \E call_args \in ScanRangeCalls :
       fx' = [op |-> "range_result", arguments |-> call_args,
              r |-> PickRangeCompaction(1, call_args.begin, call_args.end,
                                        call_args.files_being_compact,
                                        call_args.iter_ok)]
  /\ UNCHANGED pickerVars

ScanNext == CompositeCall \/ RangeCall

SpecScan == ScanInit /\ [][ScanNext]_vars

\* the ranges of a plan are strictly ascending by start and by limit and
\* none ends before it starts
RangesAscending(input_range) ==
  /\ \A i \in 1..(Len(input_range) - 1) :
       /\ input_range[i].start < input_range[i + 1].start
       /\ input_range[i].limit < input_range[i + 1].limit
  /\ \A i \in 1..Len(input_range) : input_range[i].start <= input_range[i].limit

\* C31: every plan of the Composite passes that carries input ranges has
\* them strictly ascending by start and by limit with start <= limit in
\* each, and the three assertions of new_compaction hold.
CompositeRangesAscending ==
  fx.op = "composite_result" /\ fx.r.c # nullptr =>
    /\ RangeAssertions(fx.r.c.input_range)
    /\ RangesAscending(fx.r.c.input_range)

\* the ranges that the heap pass of the call collected, before they are
\* sorted and the empty ones removed
ScanHeapRanges ==
  HeapPass(MapElements(LevelFiles(1)), fx.order, 1,
           LevelInputs(1, LevelFiles(1)), 2 * MaxFileSizeForLevel(1),
           [range |-> RangeStorage, sum |-> 0, unique_check |-> {},
            input_range |-> <<>>, asserts |-> TRUE]).input_range

\* the heap pass collected three ranges out of their order, one of them
\* was removed as empty, and the plan carries the other two
CompositeRangesAscendingWitness ==
  /\ fx.op = "composite_result"
  /\ fx.r.c # nullptr
  /\ fx.r.c.compaction_purpose = kEssenceSst
  /\ Len(fx.r.c.input_range) = 2
  /\ Len(ScanHeapRanges) = 3
  /\ SortRanges(ScanHeapRanges) # ScanHeapRanges

\* a result of SpecScan with a plan
ScanPlan == fx.op \in {"composite_result", "range_result"} /\ fx.r.c # nullptr

\* C32: a plan of the Composite passes or of the range planner carries at
\* most max_subcompactions input ranges, the range appended after the
\* sweep included.
RangeCountWithinCap ==
  ScanPlan => Len(fx.r.c.input_range) <= opts.max_subcompactions

\* the range planner appends the range that was open when the sweep ended
\* and the plan has max_subcompactions ranges, more than one
RangeCountWithinCapWitness ==
  /\ fx.op = "range_result"
  /\ fx.r.c # nullptr
  /\ opts.max_subcompactions > 1
  /\ Len(fx.r.c.input_range) = opts.max_subcompactions
  /\ fx.r.c.input_range[Len(fx.r.c.input_range)].include_limit

\* the sweep of the call whose result fx holds
ScanSweep ==
  RangeSweep(MapElements(LevelFiles(1)), 1, fx.arguments.begin,
             fx.arguments.end, fx.arguments.files_being_compact, SweepStart)

\* C36: every sub-range that the range sweep closes because of the size
\* cap covers elements whose sizes, counted from the start of that
\* sub-range, reach max_compaction_bytes.
CappedRangesFull ==
  fx.op = "range_result" /\ fx.r.c # nullptr /\ fx.r.c.input_range # <<>> =>
    \A i \in 1..Len(ScanSweep.capped) :
      ScanSweep.capped[i] >= opts.max_compaction_bytes

(***************************************************************************)
(* SpecSize: GetFilesSize over depend maps without a cycle                 *)
(***************************************************************************)
\* the files 10, 11 and 12 of the depend map have sizes 1, 2 and 4; a
\* file refers to at most MaxDepend files, each with a higher number or
\* the number 99 that the map does not know
MaxDepend == 2

DependLists(nums) ==
  UNION {[1..n -> nums] : n \in 0..MaxDepend}

DependMaps ==
  {(10 :> [File(10, 1, 4, 1, 2, 1, FALSE)
             EXCEPT !.sst_purpose = p[1], !.sst_depend = d10]) @@
   (11 :> [File(11, 1, 4, 3, 4, 2, FALSE)
             EXCEPT !.sst_purpose = p[2], !.sst_depend = d11]) @@
   (12 :> [File(12, 1, 4, 5, 6, 4, FALSE)
             EXCEPT !.sst_purpose = p[3], !.sst_depend = d12]) :
     p \in [1..3 -> {kEssenceSst, kMapSst, kLinkSst}],
     d10 \in DependLists({11, 12, 99}), d11 \in DependLists({12, 99}),
     d12 \in {<<>>, <<99>>}}

SizeInit ==
  /\ opts = <<>>
  /\ levels = <<>>
  /\ \E map \in DependMaps : depend_files = map
  /\ compactions_in_progress_ = {}
  /\ level0_compactions_in_progress_ = {}
  /\ returned = {}
  /\ last = NoCall
  /\ ctr = <<>>
  /\ \E file_number \in {10, 11, 12, 99} :
       fx = [op |-> "size_input", file_number |-> file_number]

\* GetFilesSize(nullptr, file_number) and, for a file that the map knows,
\* GetFilesSize(f, 0)
SizeCall ==
  /\ fx.op = "size_input"
  /\ fx' = [op |-> "size_result", file_number |-> fx.file_number,
            size |-> GetFilesSize(nullptr, fx.file_number),
            size_of_file |->
              IF fx.file_number \in DOMAIN depend_files
              THEN GetFilesSize(depend_files[fx.file_number], 0)
              ELSE 0]
  /\ UNCHANGED pickerVars

SizeNext == SizeCall

SpecSize == SizeInit /\ [][SizeNext]_vars

\* the chains of references that start at file n: each file of a chain
\* but the last is a map or link file, and each is known to the depend
\* map
RECURSIVE DependChains(_)
DependChains(n) ==
  IF n \notin DOMAIN depend_files THEN {}
  ELSE {<<n>>} \cup
       (IF depend_files[n].sst_purpose = kEssenceSst THEN {}
        ELSE UNION {{<<n, j>> \o chain :
                       chain \in DependChains(depend_files[n].sst_depend[j])} :
                    j \in 1..Len(depend_files[n].sst_depend)})

\* the file a chain ends at: a chain is file, position, file, ...
ChainEnd(chain) == depend_files[chain[Len(chain)]].file_size

RECURSIVE SumChains(_)
SumChains(chains) ==
  IF chains = {} THEN 0
  ELSE LET chain == CHOOSE c \in chains : TRUE
       IN  ChainEnd(chain) + SumChains(chains \ {chain})

\* C34: GetFilesSize is the size of the file plus, for a map or link
\* file, the sizes of the files it depends on that the depend map knows,
\* taken recursively; a number the map does not know adds 0; over a
\* depend map without a cycle the recursion ends, no chain being longer
\* than the map has files.
FilesSizeAsStated ==
  fx.op = "size_result" =>
    /\ fx.size = SumChains(DependChains(fx.file_number))
    /\ fx.size_of_file = fx.size
    /\ fx.file_number \notin DOMAIN depend_files => fx.size = 0
    /\ \A chain \in DependChains(fx.file_number) :
         Len(chain) <= 2 * Cardinality(DOMAIN depend_files) - 1

\* map file 10 refers to link file 11 and to a file that is not known;
\* 11 refers to file 12 twice: 1 + (2 + 4 + 4) + 0
FilesSizeAsStatedWitness ==
  /\ fx.op = "size_result"
  /\ fx.file_number = 10
  /\ depend_files[10].sst_purpose = kMapSst
  /\ depend_files[10].sst_depend = <<11, 99>>
  /\ depend_files[11].sst_purpose = kLinkSst
  /\ depend_files[11].sst_depend = <<12, 12>>
  /\ fx.size = 11

(***************************************************************************)
(* SpecProgress: PickCompaction and the completion of plans without lazy   *)
(* compaction, on trees that receive no file and hold no marked file       *)
(***************************************************************************)
\* at most MaxL0 flushed files
MaxL0 == 3

\* the sizes of flushed files
FlushedSizes == {1, 10, 100}

\* n flushed files over the whole key range, the newest first, above a
\* bottom level that is empty or holds one file
ProgressTrees ==
  UNION {
    {<<[i \in 1..n |->
          File(FirstFileNumber - i, 1, 4, FirstSeqno - i, FirstSeqno - i,
               sizes[i], FALSE)],
       <<>>,
       bottom>> :
       sizes \in [1..n -> FlushedSizes],
       bottom \in {<<>>, <<File(10, 1, 4, 1, 5, 100, FALSE)>>}} :
    n \in 0..MaxL0}

ProgressInit ==
  \E tree \in ProgressTrees, trigger \in {2, 3} :
    InitFrom([opts |-> [Options EXCEPT
                          !.level0_file_num_compaction_trigger = trigger],
              levels |-> tree])

ProgressNext == PickCompaction \/ CompleteCompaction

\* a call of PickCompaction would change the state: the enabling condition
\* of <<PickCompaction>>_vars, written out as a state predicate
PickChanges ==
  /\ Alive
  /\ ctr.plans < MaxPlans
  /\ \/ last # Call("PickCompaction", nullptr)
     \/ \E marked \in MarkedFileChoices, props_ok \in PropsChoices, scan \in ScanChoices : PickStrategies(marked, props_ok, scan).c # nullptr

\* weak fairness of PickCompaction with its enabling condition written out;
\* of the steps of ProgressNext that change the state, the steps of
\* PickCompaction are those that leave last.op = "PickCompaction"
PickCalledAgain ==
  \/ []<>~PickChanges
  \/ []<><<last'.op = "PickCompaction">>_vars

\* PickCompaction is called again and again, and the executor finishes
\* every plan it was handed
SpecProgress ==
  /\ ProgressInit
  /\ [][ProgressNext]_vars
  /\ PickCalledAgain
  /\ WF_vars(CompleteCompaction)

\* PickCompaction returned no plan, none is in flight, and the sorted runs
\* are no more than the trigger
Settled ==
  /\ last.op = "PickCompaction"
  /\ last.c = nullptr
  /\ returned = {}
  /\ Len(CalculateSortedRuns) <= opts.level0_file_num_compaction_trigger

kNotFound == "kNotFound"

kFound == "kFound"

kDeleted == "kDeleted"

kCorrupt == "kCorrupt"

kMerge == "kMerge"

\* ValueType, one byte
kTypeDeletion == 0

kTypeValue == 1

kTypeMerge == 2

kTypeSingleDeletion == 7

kTypeRangeDeletion == 15

kTypeValueIndex == 21

kTypeMergeIndex == 22

\* the largest sequence number, of 23 bits here for the 56 of the program:
\* PackSequenceAndType(kMaxSequenceNumber, 255) is the largest integer
kMaxSequenceNumber == 8388607

\* a pointer that is not nullptr, and what it points at
Ptr(target) == [at |-> target]

\* (seq << 8) | t
PackSequenceAndType(seq, t) == seq * 256 + t

\* ReadCallback::IsVisible of a snapshot: the callback points at the
\* sequence number of the snapshot
CheckCallback(callback_, seq) ==
  IF callback_ # nullptr THEN seq <= callback_.at ELSE TRUE

\* the values of a sequence of lazy slices, one after the other
RECURSIVE ConcatValues(_)
ConcatValues(slices) ==
  IF slices = <<>> THEN <<>>
  ELSE slices[1].value \o ConcatValues(Tail(slices))

\* MergeContext::GetOperands: the operands from the oldest to the newest,
\* when PushOperand received them from the newest to the oldest
RECURSIVE GetOperands(_)
GetOperands(merge_context_) ==
  IF merge_context_ = <<>> THEN <<>>
  ELSE Append(GetOperands(Tail(merge_context_)), merge_context_[1])

\* MergeHelper::TimedFullMerge with an operator that appends the operands to
\* the base value; the merge fails when the operator's FullMerge fails or a
\* lazy slice does not decode. Without an operator the call is undefined:
\* `undefined_ok` is the status that comes out of it.
TimedFullMerge(merge_operator_, base, operands, undefined_ok) ==
  IF merge_operator_ = nullptr THEN [ok |-> undefined_ok, value |-> <<>>]
  ELSE LET slices == IF base = nullptr THEN operands ELSE <<base>> \o operands
       IN  [ok |-> /\ merge_operator_.full_merge_ok
                   /\ \A i \in 1..Len(slices) : slices[i].decodes,
            value |-> ConcatValues(slices)]

\* MergeOperator::ShouldMerge
ShouldMerge(merge_operator_, operands) ==
  /\ merge_operator_.should_merge_at > 0
  /\ Len(operands) >= merge_operator_.should_merge_at

\* PutLengthPrefixedSlice: the length as a varint32, one byte for a value
\* shorter than 128 bytes, then the bytes
PutLengthPrefixedSlice(dst, value) == dst \o <<Len(value)>> \o value

\* lines 20-36
appendToReplayLog(replay_log, type, value) ==
  IF replay_log # nullptr
  THEN Ptr(PutLengthPrefixedSlice(Append(replay_log.at, type), value))
  ELSE replay_log

\* lines 40-66
GetContext(merge_operator, init_state, user_key, pinnable_val, merge_context, max_covering_tombstone_seq, seq, callback) ==
  [merge_operator_ |-> merge_operator,
   state_ |-> init_state,
   user_key_ |-> user_key,
   pinnable_val_ |-> pinnable_val,
   merge_context_ |-> merge_context,
   max_covering_tombstone_seq_ |-> max_covering_tombstone_seq,
   seq_ |-> IF seq # nullptr THEN Ptr(kMaxSequenceNumber) ELSE nullptr,
   min_seq_type_ |-> 0,
   replay_log_ |-> nullptr,
   callback_ |-> callback]

\* SetReplayLog of get_context.h
SetReplayLog(gc, replay_log) == [gc EXCEPT !.replay_log_ = replay_log]

\* SetMinSequenceAndType of get_context.h
SetMinSequenceAndType(gc, min_seq_type) ==
  [gc EXCEPT !.min_seq_type_ = min_seq_type]

\* lines 73-78
MarkKeyMayExist(gc) == [gc EXCEPT !.state_ = kFound]

\* lines 80-88: SaveValue(const Slice& value, SequenceNumber)
SaveValueSlice(gc, value) ==
  [gc EXCEPT !.replay_log_ = appendToReplayLog(gc.replay_log_, kTypeValue,
                                               value),
             !.state_ = kFound,
             !.pinnable_val_ = IF gc.pinnable_val_ # nullptr THEN Ptr(value)
                               ELSE nullptr]

\* lines 222-229, 245-252 and 267-274: the state is kFound already; with a
\* value to fill, the operands are merged onto `base` and the state becomes
\* kCorrupt when the merge fails
MergeInto(gc, base, undefined_ok) ==
  LET found == [gc EXCEPT !.state_ = kFound]
      merge_status == TimedFullMerge(gc.merge_operator_, base,
                                     GetOperands(gc.merge_context_),
                                     undefined_ok)
  IN  IF gc.pinnable_val_ = nullptr THEN found
      ELSE IF merge_status.ok
      THEN [found EXCEPT !.pinnable_val_ = Ptr(merge_status.value)]
      ELSE [found EXCEPT !.state_ = kCorrupt]

\* lines 200-232: kTypeValue and kTypeValueIndex; in a state that is neither
\* kNotFound nor kMerge the assertion of line 202 fails and a build without
\* assertions changes nothing
SaveFound(gc, value, undefined_ok) ==
  IF gc.state_ = kNotFound
  THEN IF gc.pinnable_val_ = nullptr THEN [gc EXCEPT !.state_ = kFound]
       ELSE IF ~value.decodes THEN [gc EXCEPT !.state_ = kCorrupt]
       ELSE [gc EXCEPT !.state_ = kFound, !.pinnable_val_ = Ptr(value.value)]
  ELSE IF gc.state_ = kMerge THEN MergeInto(gc, value, undefined_ok)
  ELSE gc

\* lines 234-255: kTypeDeletion, kTypeSingleDeletion and kTypeRangeDeletion
SaveDeletion(gc, undefined_ok) ==
  IF gc.state_ = kNotFound THEN [gc EXCEPT !.state_ = kDeleted]
  ELSE IF gc.state_ = kMerge THEN MergeInto(gc, nullptr, undefined_ok)
  ELSE gc

\* lines 257-278 without the return: the merge that ShouldMerge asks for
SaveMergeEager(gc, value, undefined_ok) ==
  LET pushed == [gc EXCEPT !.state_ = kMerge,
                           !.merge_context_ = Append(gc.merge_context_, value)]
      merged == /\ gc.merge_operator_ # nullptr
                /\ ShouldMerge(gc.merge_operator_, pushed.merge_context_)
  IN  [gc |-> IF merged THEN MergeInto(pushed, nullptr, undefined_ok)
              ELSE pushed,
       ret |-> TRUE]

\* lines 257-278: kTypeMerge and kTypeMergeIndex
SaveMerge(gc, value, undefined_ok) ==
  LET pushed == [gc EXCEPT !.state_ = kMerge,
                           !.merge_context_ = Append(gc.merge_context_, value)]
  IN  IF /\ gc.merge_operator_ # nullptr
         /\ ShouldMerge(gc.merge_operator_, pushed.merge_context_)
      THEN [gc |-> MergeInto(pushed, nullptr, undefined_ok), ret |-> FALSE]
      ELSE [gc |-> pushed, ret |-> TRUE]

\* lines 194-196 with >= for >
CoveredOrEqual(gc, parsed_key) ==
  /\ parsed_key.type \in {kTypeValue, kTypeMerge, kTypeValueIndex,
                          kTypeMergeIndex}
  /\ gc.max_covering_tombstone_seq_ # nullptr
  /\ gc.max_covering_tombstone_seq_.at >= parsed_key.sequence

\* lines 194-196: a range tombstone covers the entry
Covered(gc, parsed_key) ==
  /\ parsed_key.type \in {kTypeValue, kTypeMerge, kTypeValueIndex,
                          kTypeMergeIndex}
  /\ gc.max_covering_tombstone_seq_ # nullptr
  /\ gc.max_covering_tombstone_seq_.at > parsed_key.sequence

\* lines 185-283: the entry is processed
ProcessEntry(gc, parsed_key, value, undefined_ok) ==
  LET seen == IF gc.seq_ # nullptr /\ gc.seq_ = Ptr(kMaxSequenceNumber)
              THEN [gc EXCEPT !.seq_ = Ptr(parsed_key.sequence)]
              ELSE gc
      type == IF Covered(gc, parsed_key) THEN kTypeRangeDeletion
              ELSE parsed_key.type
  IN  IF type \in {kTypeValue, kTypeValueIndex}
      THEN [gc |-> SaveFound(seen, value, undefined_ok), ret |-> FALSE]
      ELSE IF type \in {kTypeDeletion, kTypeSingleDeletion,
                        kTypeRangeDeletion}
      THEN [gc |-> SaveDeletion(seen, undefined_ok), ret |-> FALSE]
      ELSE SaveMerge(seen, value, undefined_ok)

\* lines 159-288: SaveValue(parsed_key, value, matched, value_pinner); `ret`
\* is what it returns and `matched` whether *matched was set
SaveValue(gc, parsed_key, value, undefined_ok) ==
  IF parsed_key.user_key # gc.user_key_
  THEN [gc |-> gc, ret |-> FALSE, matched |-> FALSE]
  ELSE IF PackSequenceAndType(parsed_key.sequence, parsed_key.type)
            < gc.min_seq_type_
  THEN [gc |-> gc, ret |-> FALSE, matched |-> FALSE]
  ELSE IF ~CheckCallback(gc.callback_, parsed_key.sequence)
  THEN [gc |-> gc, ret |-> TRUE, matched |-> TRUE]
  ELSE IF gc.replay_log_ # nullptr /\ ~value.decodes
  THEN [gc |-> [gc EXCEPT !.state_ = kCorrupt], ret |-> FALSE,
        matched |-> TRUE]
  ELSE LET logged == [gc EXCEPT !.replay_log_ =
                        appendToReplayLog(gc.replay_log_, parsed_key.type,
                                          value.value)]
           saved == ProcessEntry(logged, parsed_key, value, undefined_ok)
       IN  [gc |-> saved.gc, ret |-> saved.ret, matched |-> TRUE]

\* GetLengthPrefixedSlice: the value and what follows it
GetLengthPrefixedSlice(s) ==
  [value |-> SubSeq(s, 2, 1 + s[1]), rest |-> SubSeq(s, 2 + s[1], Len(s))]

\* lines 290-316
RECURSIVE replayGetContextLog(_, _, _, _)
replayGetContextLog(replay_log, user_key, get_context, undefined_ok) ==
  IF Len(replay_log) = 0 THEN get_context
  ELSE LET type == replay_log[1]
           parsed == GetLengthPrefixedSlice(Tail(replay_log))
       IN  replayGetContextLog(
             parsed.rest, user_key,
             SaveValue(get_context,
                       [user_key |-> user_key,
                        sequence |-> kMaxSequenceNumber, type |-> type],
                       [value |-> parsed.value, decodes |-> TRUE],
                       undefined_ok).gc,
             undefined_ok)

(***************************************************************************)
(* SpecGet: one lookup, from the construction of its GetContext to the     *)
(* replay of its log                                                       *)
(***************************************************************************)
\* at most MaxCalls calls on one GetContext
MaxCalls == 3

\* the sequence numbers of the entries are 1..MaxSequence
MaxSequence == 3

\* the user key that is looked up
LookupKey == 1

\* appends with no early merge; fails; appends, and merges as soon as there
\* are two operands
MergeOperators ==
  {nullptr,
   [full_merge_ok |-> TRUE, should_merge_at |-> 0],
   [full_merge_ok |-> FALSE, should_merge_at |-> 0],
   [full_merge_ok |-> TRUE, should_merge_at |-> 2]}

\* a lazy slice: its bytes, and whether decode() succeeds
LazySlice(value, decodes) == [value |-> value, decodes |-> decodes]

\* the contexts a table reader is handed: kMerge comes with the operand the
\* memtable held
GetContexts ==
  {[init_state |-> init_state, merge_operator |-> merge_operator,
    pinnable_val |-> pinnable_val, tombstone |-> tombstone,
    callback |-> callback, min_seq_type |-> min_seq_type,
    replay_log |-> replay_log] :
     init_state \in {kNotFound, kMerge}, merge_operator \in MergeOperators,
     pinnable_val \in {nullptr, Ptr(<<>>)},
     tombstone \in {nullptr, Ptr(0), Ptr(2)}, callback \in {nullptr, Ptr(2)},
     min_seq_type \in {0, PackSequenceAndType(2, kTypeValue)},
     replay_log \in {nullptr, Ptr(<<>>)}}

\* the GetContext of lines 40-66 for the lookup `p`
Constructed(p) ==
  GetContext(p.merge_operator, p.init_state, LookupKey, p.pinnable_val,
             IF p.init_state = kMerge THEN <<LazySlice(<<9>>, TRUE)>>
             ELSE <<>>,
             p.tombstone, Ptr(kMaxSequenceNumber), p.callback)

GetInit ==
  /\ opts = <<>>
  /\ levels = <<>>
  /\ depend_files = <<>>
  /\ compactions_in_progress_ = {}
  /\ level0_compactions_in_progress_ = {}
  /\ returned = {}
  /\ last = NoCall
  /\ ctr = <<>>
  /\ \E p \in GetContexts :
       fx = [op |-> "GetContext", params |-> p,
             gc |-> SetMinSequenceAndType(
                      SetReplayLog(Constructed(p), p.replay_log),
                      p.min_seq_type),
             calls |-> 0, stopped |-> FALSE]

\* the entries of a table: the types of lines 200-258, and for one user key
\* the newer entry before the older
Entries ==
  {[key |-> [user_key |-> user_key, sequence |-> sequence, type |-> type],
    value |-> LazySlice(<<sequence>>, decodes)] :
     user_key \in {LookupKey, LookupKey + 1}, sequence \in 1..MaxSequence,
     type \in {kTypeDeletion, kTypeValue, kTypeMerge, kTypeSingleDeletion,
               kTypeRangeDeletion, kTypeValueIndex, kTypeMergeIndex},
     decodes \in BOOLEAN}

\* the caller goes on to the next entry
CallerContinues == ~fx.stopped /\ fx.calls < MaxCalls

\* the table reader calls SaveValue(parsed_key, ...) and stops at the first
\* call that returns false
SaveValueCall ==
  /\ fx.op \in {"GetContext", "SaveValue"}
  /\ CallerContinues
  /\ \E e \in Entries :
       /\ fx.op = "SaveValue" /\ e.key.user_key = fx.key.user_key
            => e.key.sequence < fx.key.sequence
       /\ \E undefined_ok \in IF fx.gc.merge_operator_ = nullptr
                              THEN BOOLEAN ELSE {TRUE} :
            LET r == SaveValue(fx.gc, e.key, e.value, undefined_ok)
            IN  fx' = [op |-> "SaveValue", params |-> fx.params,
                       gc |-> r.gc, calls |-> fx.calls + 1,
                       stopped |-> ~r.ret, key |-> e.key, value |-> e.value,
                       ret |-> r.ret, matched |-> r.matched,
                       undefined_ok |-> undefined_ok]
  /\ UNCHANGED pickerVars

\* the table cache calls MarkKeyMayExist when it may not read the file, and
\* ends the lookup
MarkKeyMayExistCall ==
  /\ fx.op \in {"GetContext", "SaveValue"}
  /\ CallerContinues
  /\ fx' = [op |-> "MarkKeyMayExist", params |-> fx.params,
            gc |-> MarkKeyMayExist(fx.gc), calls |-> fx.calls + 1,
            stopped |-> TRUE]
  /\ UNCHANGED pickerVars

\* SaveValue(value, seq) on a lookup that found nothing so far (line 81)
SaveValueSliceCall ==
  /\ fx.op \in {"GetContext", "SaveValue"}
  /\ CallerContinues
  /\ fx.gc.state_ = kNotFound
  /\ \E value \in {<<>>, <<1>>} :
       fx' = [op |-> "SaveValueSlice", params |-> fx.params,
              gc |-> SaveValueSlice(fx.gc, value), calls |-> fx.calls + 1,
              stopped |-> TRUE]
  /\ UNCHANGED pickerVars

\* the recorded log is replayed into a GetContext constructed as the first
\* was
ReplayCall ==
  /\ fx.op \in {"SaveValue", "SaveValueSlice"}
  /\ fx.gc.replay_log_ # nullptr
  /\ \E undefined_ok \in IF fx.gc.merge_operator_ = nullptr
                         THEN BOOLEAN ELSE {TRUE} :
       fx' = [op |-> "replayGetContextLog", params |-> fx.params,
              gc |-> fx.gc, calls |-> fx.calls, stopped |-> TRUE,
              replayed |-> replayGetContextLog(
                             fx.gc.replay_log_.at, LookupKey,
                             Constructed([fx.params EXCEPT
                                            !.callback = nullptr]),
                             undefined_ok)]
  /\ UNCHANGED pickerVars

GetNext ==
  \/ SaveValueCall
  \/ MarkKeyMayExistCall
  \/ SaveValueSliceCall
  \/ ReplayCall

SpecGet == GetInit /\ [][GetNext]_vars

\* the states in which a lookup has its answer
FinalStates == {kFound, kDeleted, kCorrupt}

\* lines 165-170: another user key, or an entry that min_seq_type_ masks
Masked(gc, parsed_key) ==
  \/ parsed_key.user_key # gc.user_key_
  \/ PackSequenceAndType(parsed_key.sequence, parsed_key.type)
       < gc.min_seq_type_

\* the step is a call of SaveValue(parsed_key, ...)
IsSaveValueStep == fx'.op = "SaveValue" /\ fx'.calls = fx.calls + 1

LookupStep ==
  /\ fx.gc.state_ \in FinalStates => fx'.gc.state_ = fx.gc.state_
  /\ IsSaveValueStep =>
       /\ fx.gc.state_ \in {kNotFound, kMerge}
       /\ fx'.ret => fx'.gc.state_ \in {kNotFound, kMerge}
       /\ Masked(fx.gc, fx'.key) =>
            /\ ~fx'.ret
            /\ fx'.gc.state_ = fx.gc.state_
            /\ fx'.gc.seq_ = fx.gc.seq_
            /\ fx'.gc.pinnable_val_ = fx.gc.pinnable_val_

\* C38: when the caller stops at the first SaveValue(parsed_key, ...) that
\* returns false, every call is entered in kNotFound or kMerge, a call
\* returns true only when it leaves the state kNotFound or kMerge, a state
\* of kFound, kDeleted or kCorrupt never changes again, and a call for
\* another user key or for an entry below min_seq_type_ returns false and
\* leaves state, sequence and value as they were.
LookupStateMachine == [][LookupStep]_vars

\* the third call brought the value under two merge operands, and the
\* lookup ended in kFound
LookupStateMachineWitness ==
  /\ fx.op = "SaveValue"
  /\ fx.calls = 3
  /\ fx.key.type = kTypeValue
  /\ ~fx.ret
  /\ Len(fx.gc.merge_context_) = 2
  /\ fx.gc.state_ = kFound
  /\ fx.gc.pinnable_val_ = Ptr(<<1, 2, 3>>)

\* lines 165-183: the entry gets as far as line 185
ReachesProcessing(gc, parsed_key, value) ==
  /\ ~Masked(gc, parsed_key)
  /\ CheckCallback(gc.callback_, parsed_key.sequence)
  /\ gc.replay_log_ # nullptr => value.decodes

\* the context that SaveValue leaves when no tombstone sequence is given
ByOwnType(gc, parsed_key, value, undefined_ok) ==
  [SaveValue([gc EXCEPT !.max_covering_tombstone_seq_ = nullptr],
             parsed_key, value, undefined_ok).gc
     EXCEPT !.max_covering_tombstone_seq_ = gc.max_covering_tombstone_seq_]

\* what the deletion of lines 239-255 leaves of a lookup in kMerge
MergedWithoutBase(gc, after, undefined_ok) ==
  LET merge_status == TimedFullMerge(gc.merge_operator_, nullptr,
                                     GetOperands(gc.merge_context_),
                                     undefined_ok)
  IN  IF gc.pinnable_val_ = nullptr THEN after.state_ = kFound
      ELSE IF merge_status.ok
      THEN /\ after.state_ = kFound
           /\ after.pinnable_val_ = Ptr(merge_status.value)
      ELSE after.state_ = kCorrupt

TombstoneStep ==
  /\ IsSaveValueStep
  /\ ReachesProcessing(fx.gc, fx'.key, fx'.value)
  /\ fx'.key.type \in {kTypeValue, kTypeMerge, kTypeValueIndex,
                       kTypeMergeIndex}
  => IF /\ fx.gc.max_covering_tombstone_seq_ # nullptr
        /\ fx'.key.sequence < fx.gc.max_covering_tombstone_seq_.at
     THEN /\ ~fx'.ret
          /\ fx'.gc.merge_context_ = fx.gc.merge_context_
          /\ fx.gc.state_ = kNotFound =>
               /\ fx'.gc.state_ = kDeleted
               /\ fx'.gc.pinnable_val_ = fx.gc.pinnable_val_
          /\ fx.gc.state_ = kMerge =>
               MergedWithoutBase(fx.gc, fx'.gc, fx'.undefined_ok)
     ELSE fx'.gc = ByOwnType(fx.gc, fx'.key, fx'.value, fx'.undefined_ok)

\* C39: a value or merge entry (index variants included) of the lookup key
\* that SaveValue processes and whose sequence number is below the max
\* covering tombstone sequence is a deletion: kNotFound becomes kDeleted
\* with no value stored, kMerge becomes kFound with the operands merged
\* onto no base value (kCorrupt when the merge fails); at or above the
\* tombstone sequence the entry is processed by its own type.
CoveredIsDeletion == [][TombstoneStep]_vars

\* a merge entry of sequence 1 under the tombstone sequence 2, on a lookup
\* that came in kMerge with the operand <<9>>: the lookup ended in kFound
\* with that operand alone as the value
CoveredIsDeletionWitness ==
  /\ fx.op = "SaveValue"
  /\ fx.calls = 1
  /\ fx.params.init_state = kMerge
  /\ fx.key = [user_key |-> LookupKey, sequence |-> 1, type |-> kTypeMerge]
  /\ fx.gc.max_covering_tombstone_seq_ = Ptr(2)
  /\ fx.matched
  /\ ~fx.ret
  /\ fx.gc.state_ = kFound
  /\ fx.gc.pinnable_val_ = Ptr(<<9>>)

\* C40: replaying the recorded log into a GetContext constructed with the
\* same initial state, user key, merge operator and covering tombstone
\* sequence ends in the same state and the same stored value as the lookup
\* that recorded it.
ReplayRoundTrip ==
  fx.op = "replayGetContextLog" =>
    /\ fx.replayed.state_ = fx.gc.state_
    /\ fx.replayed.pinnable_val_ = fx.gc.pinnable_val_

====
